---- MODULE Spec2Model ----
(***************************************************************************)
(* A model of the KarinJS documentation site: the VitePress site           *)
(* configuration (locales, nav, sidebar), the theme extension, the         *)
(* Markdown pages with the links in their bodies, and the code samples     *)
(* the pages document (UsersService, the validation pipes, the HTTP        *)
(* exceptions and their responses, the dependency injection container and  *)
(* the services composed through it, the guard and the handlers).          *)
(***************************************************************************)
EXTENDS Integers, Sequences, FiniteSets, TLC

VARIABLES
    \* the site as a visitor walks it
    router,     \* where the visitor is: a page, a missing page or another host
    visited,    \* the page files the visitor has seen
    via,        \* the link that was followed last
    vnode,      \* what the theme's Layout rendered last
    app,        \* the Vue app handed to enhanceApp
    siteData,   \* the site data handed to enhanceApp
    booted,     \* enhanceApp has run
    \* UsersService of the exception-handling page
    users,      \* this.users
    call,       \* the method called last and its argument
    result,     \* what that call returned or threw
    before,     \* this.users as it was when that call started
    \* one request on its way through the framework
    pc,          \* "boot", "idle", "pipes", "thrown" or "done" ("off": no app)
    globalPipes, \* the pipes given to app.useGlobalPipes
    reqRoute,    \* the route of the request
    reqValue,    \* the parameter value as the pipes have made it so far
    idx,         \* how many pipes have returned
    log,         \* what has happened to the request, in order
    handled,     \* whether the handler was invoked, and with which argument
    threw,       \* the throw expression that ended the request, if any
    thrown,      \* the exception object it made
    reqResponse, \* the response sent
    \* the dependency injection container of the services page
    diPage,      \* the page whose container this is: "en" or "es" ("off": none)
    heap,        \* the service instances constructed so far, in order
    injected,    \* per injecting class and service class: the instance it holds
    diCall,      \* the service method called last, through whom, and its outcome
    connects,    \* the instances on which connect has completed
    \* one call of a code sample of the pages
    fnName,      \* the sample that is called ("none": no call is set up)
    fnIn,        \* its arguments and the environment it runs in
    fnOut,       \* what it returned or threw, and what it left behind
    \* UsersService and RegistrationService of the services page
    svcUsers,    \* this.users
    svcCall,     \* the UsersService method called last and its argument
    svcResult,   \* what that call returned
    svcBefore,   \* this.users as it was when that call started
    regPc,       \* where register is: "idle", "create", "email", "success",
                 \* "catch" or "done" ("off": no service)
    regData,     \* the userData register was called with
    regUser,     \* the user that usersService.create resolved with
    regError,    \* the error that was caught
    regTrace,    \* what register has done so far, in order
    regResult    \* what register returned or threw

siteVars  == <<router, visited, via, vnode, app, siteData, booted>>
usersVars == <<users, call, result, before>>
reqVars   == <<pc, globalPipes, reqRoute, reqValue, idx, log, handled, threw,
               thrown, reqResponse>>
\* what a step of the site leaves alone, what a step of UsersService does, and
\* what a step of a request does
diVars    == <<diPage, heap, injected, diCall, connects>>
fnVars    == <<fnName, fnIn, fnOut>>
svcVars   == <<svcUsers, svcCall, svcResult, svcBefore, regPc, regData, regUser,
               regError, regTrace, regResult>>
notSiteVars  == <<usersVars, reqVars, diVars, fnVars, svcVars>>
notUsersVars == <<siteVars, reqVars, diVars, fnVars, svcVars>>
notReqVars   == <<siteVars, usersVars, diVars, fnVars, svcVars>>
notDiVars    == <<siteVars, usersVars, reqVars, fnVars, svcVars>>
notFnVars    == <<siteVars, usersVars, reqVars, diVars, svcVars>>
notSvcVars   == <<siteVars, usersVars, reqVars, diVars, fnVars>>
vars      == <<router, visited, via, vnode, app, siteData, booted,
               users, call, result, before,
               pc, globalPipes, reqRoute, reqValue, idx, log, handled, threw,
               thrown, reqResponse,
               diPage, heap, injected, diCall, connects,
               fnName, fnIn, fnOut,
               svcUsers, svcCall, svcResult, svcBefore, regPc, regData, regUser,
               regError, regTrace, regResult>>

Null == "null"

(***************************************************************************)
(* Links and files.  A link is kept as its parsed parts: "/es/guards" is   *)
(* the absolute link with segments <<"es","guards">>, "/es/" the same with *)
(* a trailing slash, "./pipes.md" a link relative to the page's folder,    *)
(* "https://host/a/b.md" a link to another host, "#" the empty anchor.     *)
(* A file docs/es/pipes.md is <<"docs","es","pipes">>.                     *)
(***************************************************************************)
Abs(segs)       == [kind |-> "abs",  host |-> "", segs |-> segs, dir |-> FALSE]
AbsDir(segs)    == [kind |-> "abs",  host |-> "", segs |-> segs, dir |-> TRUE]
Rel(segs)       == [kind |-> "rel",  host |-> "", segs |-> segs, dir |-> FALSE]
Ext(host, segs) == [kind |-> "ext",  host |-> host, segs |-> segs, dir |-> FALSE]
Hash            == [kind |-> "hash", host |-> "", segs |-> <<>>, dir |-> FALSE]

Item(text, link) == [text |-> text, link |-> link]
Group(text, items) == [text |-> text, items |-> items]

ChangelogLink ==
    Ext("github.com", <<"jefjesuswt", "karin-js", "blob", "main", "packages",
                        "core", "CHANGELOG">>)
GitHubLink == Ext("github.com", <<"jefjesuswt", "karin-js">>)

\* locales.root.themeConfig.nav
RootNav ==
    << Item("Home", AbsDir(<<>>)),
       Item("Guide", Abs(<<"introduction">>)),
       Item("Changelog", ChangelogLink) >>

\* locales.root.themeConfig.sidebar
RootSidebar ==
    << Group("Introduction",
             << Item("What is KarinJS?", Abs(<<"introduction">>)),
                Item("Getting Started", Abs(<<"getting-started">>)) >>),
       Group("Core Concepts",
             << Item("Controllers", Abs(<<"controllers">>)),
                Item("Services & DI", Abs(<<"services">>)),
                Item("Validation (Pipes)", Abs(<<"pipes">>)),
                Item("Exception Handling", Abs(<<"exception-handling">>)) >>),
       Group("Advanced",
             << Item("Guards (WIP)", Hash) >>) >>

\* an es nav bar whose guide entry links the root locale's page
EsNav_unprefixed ==
    << Item("Inicio", AbsDir(<<"es">>)),
       Item("Guia", Abs(<<"introduction">>)),
       Item("Changelog", ChangelogLink) >>

\* locales.es.themeConfig.nav
EsNav ==
    << Item("Inicio", AbsDir(<<"es">>)),
       Item("Guia", Abs(<<"es", "introduction">>)),
       Item("Changelog", ChangelogLink) >>

\* the es sidebar with two entries of "Conceptos Clave" in the other order
EsSidebar_swapped ==
    << Group("Introduccion",
             << Item("Que es KarinJS?", Abs(<<"es", "introduction">>)),
                Item("Primeros Pasos", Abs(<<"es", "getting-started">>)) >>),
       Group("Conceptos Clave",
             << Item("Servicios e ID", Abs(<<"es", "services">>)),
                Item("Controladores", Abs(<<"es", "controllers">>)),
                Item("Validacion (Pipes)", Abs(<<"es", "pipes">>)),
                Item("Manejo de Excepciones", Abs(<<"es", "exception-handling">>)) >>),
       Group("Avanzado",
             << Item("Guards", Abs(<<"es", "guards">>)) >>) >>

\* locales.es.themeConfig.sidebar (labels written without diacritics)
EsSidebar ==
    << Group("Introduccion",
             << Item("Que es KarinJS?", Abs(<<"es", "introduction">>)),
                Item("Primeros Pasos", Abs(<<"es", "getting-started">>)) >>),
       Group("Conceptos Clave",
             << Item("Controladores", Abs(<<"es", "controllers">>)),
                Item("Servicios e ID", Abs(<<"es", "services">>)),
                Item("Validacion (Pipes)", Abs(<<"es", "pipes">>)),
                Item("Manejo de Excepciones", Abs(<<"es", "exception-handling">>)) >>),
       Group("Avanzado",
             << Item("Guards", Abs(<<"es", "guards">>)) >>) >>

Locales == {"root", "es"}
Nav(locale)     == IF locale = "es" THEN EsNav ELSE RootNav
Sidebar(locale) == IF locale = "es" THEN EsSidebar ELSE RootSidebar
OtherLocale(locale) == IF locale = "es" THEN "root" ELSE "es"

\* the Markdown pages of the repository
RootPages ==
    { <<"docs", "index">>, <<"docs", "introduction">>,
      <<"docs", "getting-started">>, <<"docs", "controllers">>,
      <<"docs", "services">>, <<"docs", "pipes">>,
      <<"docs", "exception-handling">> }
EsPages ==
    { <<"docs", "es", "index">>, <<"docs", "es", "introduction">>,
      <<"docs", "es", "getting-started">>, <<"docs", "es", "controllers">>,
      <<"docs", "es", "services">>, <<"docs", "es", "pipes">>,
      <<"docs", "es", "exception-handling">> }
Pages == RootPages \cup EsPages

\* the locale a file is served under: docs/es/... is es, the rest root
LocaleOf(file) ==
    IF Len(file) >= 2 /\ file[2] = "es" THEN "es" ELSE "root"

\* the folder of a file
DirOf(file) == SubSeq(file, 1, Len(file) - 1)

\* the file a link on page `from` asks for (cleanUrls: /x is docs/x.md,
\* a folder is its index.md, ./x.md is x.md next to the page)
Resolve(link, from) ==
    IF link.kind = "rel" THEN DirOf(from) \o link.segs
    ELSE <<"docs">> \o link.segs \o (IF link.dir THEN <<"index">> ELSE <<>>)

IsInternal(link) == link.kind \in {"abs", "rel"}

(***************************************************************************)
(* The links in the bodies of the pages.  topic is TRUE for a link to      *)
(* another documentation topic (the "Next Steps" lists, the in-text cross  *)
(* references, the home page's "Get Started" action) and FALSE for a       *)
(* reference to an outside project (Zod, Bun, the GitHub repository).      *)
(***************************************************************************)
BodyLink(text, link, topic) == [text |-> text, link |-> link, topic |-> topic]

ClaudeChat(name) == Ext("claude.ai", <<"chat", name>>)

\* docs/pipes.md
PipesLinks ==
    << BodyLink("Zod", Ext("zod.dev", <<>>), FALSE),
       BodyLink("Guards", ClaudeChat("guards"), TRUE),
       BodyLink("Exception Handling", ClaudeChat("exceptions"), TRUE),
       BodyLink("Controllers", ClaudeChat("controllers"), TRUE) >>

\* docs/controllers.md
ControllersLinks ==
    << BodyLink("Exceptions", ClaudeChat("exceptions"), TRUE),
       BodyLink("Services & Dependency Injection", ClaudeChat("services"), TRUE),
       BodyLink("Validation with Pipes", ClaudeChat("validation"), TRUE),
       BodyLink("Guards", ClaudeChat("guards"), TRUE),
       BodyLink("Exception Handling", ClaudeChat("exceptions"), TRUE) >>

\* docs/exception-handling.md
ExceptionHandlingLinks ==
    << BodyLink("Controllers", Abs(<<"controllers">>), TRUE),
       BodyLink("Validation", Abs(<<"pipes">>), TRUE) >>

\* docs/services.md
ServicesLinks ==
    << BodyLink("Validation with Pipes", Abs(<<"pipes">>), TRUE),
       BodyLink("Exception Handling", Abs(<<"exception-handling">>), TRUE) >>

\* docs/index.md
IndexLinks ==
    << BodyLink("Get Started", Abs(<<"getting-started">>), TRUE),
       BodyLink("View on GitHub", GitHubLink, FALSE) >>

\* docs/introduction.md
IntroductionLinks ==
    << BodyLink("Getting Started", ClaudeChat("getting-started"), TRUE) >>

\* docs/getting-started.md
GettingStartedLinks ==
    << BodyLink("Install Bun", Ext("bun.sh", <<>>), FALSE),
       BodyLink("Controllers", Abs(<<"controllers">>), TRUE),
       BodyLink("Services & Dependency Injection", Abs(<<"services">>), TRUE),
       BodyLink("Validation with Pipes", Abs(<<"pipes">>), TRUE),
       BodyLink("Exception Handling", Abs(<<"exception-handling">>), TRUE) >>

\* docs/es/pipes.md
EsPipesLinks ==
    << BodyLink("Zod", Ext("zod.dev", <<>>), FALSE),
       BodyLink("Manejo de Excepciones", Rel(<<"exception-handling">>), TRUE),
       BodyLink("Controladores", Rel(<<"controllers">>), TRUE) >>

\* docs/es/controllers.md
EsControllersLinks ==
    << BodyLink("Excepciones", Rel(<<"exception-handling">>), TRUE),
       BodyLink("Servicios e Inyeccion de Dependencias", Rel(<<"services">>), TRUE),
       BodyLink("Validacion con Pipes", Rel(<<"pipes">>), TRUE),
       BodyLink("Manejo de Excepciones", Rel(<<"exception-handling">>), TRUE) >>

\* docs/es/exception-handling.md
EsExceptionHandlingLinks ==
    << BodyLink("Controladores", Rel(<<"controllers">>), TRUE),
       BodyLink("Validacion", Rel(<<"pipes">>), TRUE) >>

\* docs/es/services.md
EsServicesLinks ==
    << BodyLink("Validacion con Pipes", Rel(<<"pipes">>), TRUE),
       BodyLink("Manejo de Excepciones", Rel(<<"exception-handling">>), TRUE) >>

\* docs/es/index.md
EsIndexLinks ==
    << BodyLink("Primeros Pasos", Abs(<<"es", "getting-started">>), TRUE),
       BodyLink("Ver en GitHub", GitHubLink, FALSE) >>

\* docs/es/introduction.md
EsIntroductionLinks ==
    << BodyLink("Primeros Pasos", Rel(<<"getting-started">>), TRUE) >>

\* docs/es/getting-started.md
EsGettingStartedLinks ==
    << BodyLink("Instalar Bun", Ext("bun.sh", <<>>), FALSE),
       BodyLink("Controladores", Rel(<<"controllers">>), TRUE),
       BodyLink("Servicios e Inyeccion de Dependencias", Rel(<<"services">>), TRUE),
       BodyLink("Validacion con Pipes", Rel(<<"pipes">>), TRUE),
       BodyLink("Manejo de Excepciones", Rel(<<"exception-handling">>), TRUE),
       BodyLink("GitHub", GitHubLink, FALSE) >>

\* the body links of a page file
BodyLinks(file) ==
    CASE file = <<"docs", "index">>                    -> IndexLinks
      [] file = <<"docs", "introduction">>             -> IntroductionLinks
      [] file = <<"docs", "getting-started">>          -> GettingStartedLinks
      [] file = <<"docs", "controllers">>              -> ControllersLinks
      [] file = <<"docs", "services">>                 -> ServicesLinks
      [] file = <<"docs", "pipes">>                    -> PipesLinks
      [] file = <<"docs", "exception-handling">>       -> ExceptionHandlingLinks
      [] file = <<"docs", "es", "index">>              -> EsIndexLinks
      [] file = <<"docs", "es", "introduction">>       -> EsIntroductionLinks
      [] file = <<"docs", "es", "getting-started">>    -> EsGettingStartedLinks
      [] file = <<"docs", "es", "controllers">>        -> EsControllersLinks
      [] file = <<"docs", "es", "services">>           -> EsServicesLinks
      [] file = <<"docs", "es", "pipes">>              -> EsPipesLinks
      [] file = <<"docs", "es", "exception-handling">> -> EsExceptionHandlingLinks
      [] OTHER                                         -> <<>>

(***************************************************************************)
(* The theme extension: docs/.vitepress/theme/index.ts                     *)
(***************************************************************************)
NoSlots == <<>>

\* Vue's h(type, props, children)
h(type, props, children) == [type |-> type, props |-> props, children |-> children]

DefaultThemeLayout == "DefaultTheme.Layout"

\* Layout: () => h(DefaultTheme.Layout, null, {})
Layout == h(DefaultThemeLayout, Null, NoSlots)

\* an enhanceApp that registers a global component
enhanceApp_registers(ctx) ==
    [ctx EXCEPT !.app = [components |-> @.components \cup {"CustomBanner"}]]

\* enhanceApp({ app, router, siteData }) { }: the context after the call
enhanceApp(ctx) == ctx

NotRendered == h("none", Null, NoSlots)

(***************************************************************************)
(* The site as a visitor walks it.                                         *)
(***************************************************************************)
PageAt(file)     == [kind |-> "page", file |-> file, host |-> ""]
NotFoundAt(file) == [kind |-> "notFound", file |-> file, host |-> ""]
ExternalAt(host) == [kind |-> "external", file |-> <<>>, host |-> host]

\* where following `link` from the route `cur` leads
Navigate(link, cur) ==
    IF link.kind = "hash" THEN cur
    ELSE IF link.kind = "ext" THEN ExternalAt(link.host)
    ELSE LET f == Resolve(link, cur.file)
         IN  IF f \in Pages THEN PageAt(f) ELSE NotFoundAt(f)

Via(kind, from, g, i, link, topic) ==
    [kind |-> kind, from |-> from, g |-> g, i |-> i, link |-> link, topic |-> topic]

Landing(file) == Via("landing", file, 0, 0, Hash, FALSE)

Seen(route) == IF route.kind = "page" THEN {route.file} ELSE {}

SiteInit ==
    /\ \E file \in Pages :
          /\ router = PageAt(file)
          /\ via = Landing(file)
          /\ visited = {file}
    /\ vnode = NotRendered
    /\ app = [components |-> {}]
    /\ siteData = [title |-> "KarinJS", cleanUrls |-> TRUE]
    /\ booted = FALSE

\* VitePress creates the app: it calls the theme's enhanceApp, then mounts Layout
EnhanceApp ==
    /\ ~booted
    /\ LET ctx == enhanceApp([app |-> app, router |-> router, siteData |-> siteData])
       IN  /\ app' = ctx.app
           /\ router' = ctx.router
           /\ siteData' = ctx.siteData
    /\ booted' = TRUE
    /\ vnode' = Layout
    /\ UNCHANGED <<visited, via>>
    /\ UNCHANGED notSiteVars

Follow(kind, g, i, link, topic) ==
    /\ booted
    /\ router.kind = "page"
    /\ router' = Navigate(link, router)
    /\ via' = Via(kind, router.file, g, i, link, topic)
    /\ visited' = visited \cup Seen(router')
    /\ vnode' = Layout
    /\ UNCHANGED <<app, siteData, booted>>
    /\ UNCHANGED notSiteVars

\* the visitor follows an entry of the nav bar of the page's locale
ClickNav ==
    /\ router.kind = "page"
    /\ \E i \in DOMAIN Nav(LocaleOf(router.file)) :
          Follow("nav", 0, i, Nav(LocaleOf(router.file))[i].link, FALSE)

\* the visitor follows an entry of the sidebar of the page's locale
ClickSidebar ==
    /\ router.kind = "page"
    /\ \E g \in DOMAIN Sidebar(LocaleOf(router.file)) :
          \E i \in DOMAIN Sidebar(LocaleOf(router.file))[g].items :
             Follow("sidebar", g, i,
                    Sidebar(LocaleOf(router.file))[g].items[i].link, FALSE)

\* the visitor follows a link in the body of the page
ClickBodyLink ==
    /\ router.kind = "page"
    /\ \E k \in DOMAIN BodyLinks(router.file) :
          Follow("body", 0, k, BodyLinks(router.file)[k].link,
                 BodyLinks(router.file)[k].topic)

SiteNext == EnhanceApp \/ ClickNav \/ ClickSidebar \/ ClickBodyLink

UsersIdle ==
    /\ users = <<>>
    /\ call = [op |-> "none", arg |-> Null]
    /\ result = [kind |-> "none", value |-> Null]
    /\ before = <<>>

ReqIdle ==
    /\ pc = "off"
    /\ globalPipes = <<>>
    /\ reqRoute = "none"
    /\ reqValue = Null
    /\ idx = 0
    /\ log = <<>>
    /\ handled = [invoked |-> FALSE, arg |-> Null]
    /\ threw = Null
    /\ thrown = Null
    /\ reqResponse = [kind |-> "none", body |-> <<>>]

\* no container has been created
DiIdle ==
    /\ diPage = "off"
    /\ heap = <<>>
    /\ injected = <<>>
    /\ diCall = [op |-> "none", injector |-> Null, class |-> Null,
                 key |-> Null, value |-> Null, threw |-> FALSE, result |-> Null]
    /\ connects = {}

\* no sample is being called
FnIdle ==
    /\ fnName = "none"
    /\ fnIn = Null
    /\ fnOut = [kind |-> "none", value |-> Null, left |-> Null]

\* no service of the services page has been constructed
SvcIdle ==
    /\ svcUsers = <<>>
    /\ svcCall = [op |-> "none", arg |-> Null]
    /\ svcResult = [kind |-> "none", value |-> Null]
    /\ svcBefore = <<>>
    /\ regPc = "off"
    /\ regData = Null
    /\ regUser = Null
    /\ regError = Null
    /\ regTrace = <<>>
    /\ regResult = [kind |-> "none", value |-> Null]

InitSite == SiteInit /\ UsersIdle /\ ReqIdle /\ DiIdle /\ FnIdle /\ SvcIdle

SpecSite == InitSite /\ [][SiteNext]_vars

(***************************************************************************)
(* Properties of the site.                                                 *)
(***************************************************************************)
\* the link with the /es prefix put before its path
EsPrefixed(link) == [link EXCEPT !.segs = <<"es">> \o @]

IsPageLink(link) == link.kind = "abs"

\* C1: every internal nav or sidebar link that the visitor follows, in either
\* locale, lands on a Markdown page of the repository at the matching path
\* (/x is docs/x.md, /es/x is docs/es/x.md, / and /es/ the locale's index).
C1_NavAndSidebarLinksResolve ==
    (via.kind \in {"nav", "sidebar"} /\ IsInternal(via.link)) =>
        /\ router.kind = "page"
        /\ router.file \in Pages
        /\ router.file = <<"docs">> \o via.link.segs
                            \o (IF via.link.dir THEN <<"index">> ELSE <<>>)

\* C2 as stated: whenever a sidebar entry is followed, the other locale's
\* sidebar has an entry at the same group and position, and the es entry is
\* the root entry's page with the /es prefix.
C2_SidebarParity ==
    via.kind = "sidebar" =>
        /\ Len(RootSidebar) = Len(EsSidebar)
        /\ via.g \in DOMAIN RootSidebar /\ via.g \in DOMAIN EsSidebar
        /\ Len(RootSidebar[via.g].items) = Len(EsSidebar[via.g].items)
        /\ IsPageLink(RootSidebar[via.g].items[via.i].link)
        /\ EsSidebar[via.g].items[via.i].link
              = EsPrefixed(RootSidebar[via.g].items[via.i].link)

\* C2 as amended: the two sidebars have the same groups with the same number
\* of entries; an entry of the root sidebar that links a page has the same
\* page with the /es prefix at the same place of the es sidebar; the one
\* entry of the root sidebar that links no page is the placeholder "#" of
\* "Guards (WIP)", where the es sidebar links /es/guards.
C2_SidebarParityButGuards ==
    via.kind = "sidebar" =>
        /\ Len(RootSidebar) = Len(EsSidebar)
        /\ via.g \in DOMAIN RootSidebar /\ via.g \in DOMAIN EsSidebar
        /\ Len(RootSidebar[via.g].items) = Len(EsSidebar[via.g].items)
        /\ LET en == RootSidebar[via.g].items[via.i]
               es == EsSidebar[via.g].items[via.i]
           IN  IF IsPageLink(en.link)
               THEN es.link = EsPrefixed(en.link)
               ELSE /\ en.link = Hash
                    /\ en.text = "Guards (WIP)"
                    /\ es.link = Abs(<<"es", "guards">>)

\* C2 witness: a visitor of the es locale who has seen the es controllers page
\* followed the second entry of the second sidebar group to the services page.
C2_Witness ==
    /\ via.kind = "sidebar" /\ via.g = 2 /\ via.i = 2
    /\ LocaleOf(via.from) = "es"
    /\ router = PageAt(<<"docs", "es", "services">>)
    /\ <<"docs", "es", "controllers">> \in visited

\* C3: every link from a page's body to another documentation topic that the
\* visitor follows lands on a page of the repository in the locale of the
\* page it was on, never on another host.
C3_BodyTopicLinksStayOnSite ==
    (via.kind = "body" /\ via.topic) =>
        /\ router.kind = "page"
        /\ router.file \in Pages
        /\ LocaleOf(router.file) = LocaleOf(via.from)

\* C4: the theme adds nothing to the default theme: whenever Layout has
\* rendered, the node is DefaultTheme.Layout with null props and no slot, and
\* the step that runs enhanceApp leaves app, router and siteData as they were.
C4_ThemeAddsNothing ==
    [][ /\ booted' => /\ vnode'.type = "DefaultTheme.Layout"
                      /\ vnode'.props = Null
                      /\ DOMAIN vnode'.children = {}
        /\ (~booted /\ booted') => /\ app' = app
                                   /\ router' = router
                                   /\ siteData' = siteData ]_vars

\* C4 witness: enhanceApp has run on a visitor who landed on the es pipes page,
\* and Layout has rendered after a navigation.
C4_Witness ==
    /\ booted
    /\ via.kind = "body" /\ via.from = <<"docs", "es", "pipes">>
    /\ vnode = [type |-> "DefaultTheme.Layout", props |-> Null, children |-> <<>>]
    /\ app = [components |-> {}]

(***************************************************************************)
(* The HTTP exceptions of the exception-handling page.  What is thrown is  *)
(* kept as the class name, the payload given to the constructor and the    *)
(* HTTP status; a payload is a string or an object.                        *)
(***************************************************************************)
Str(message) == [type |-> "string", fields |-> [message |-> message]]
Obj(fields)  == [type |-> "object", fields |-> fields]

BadRequestStatus          == 400
UnauthorizedStatus        == 401
ForbiddenStatus           == 403
NotFoundStatus            == 404
InternalServerErrorStatus == 500

\* new HttpException(response, status)
HttpException(response, status) ==
    [name |-> "HttpException", response |-> response, status |-> status]

BadRequestException(response) ==
    [name |-> "BadRequestException", response |-> response,
     status |-> BadRequestStatus]
UnauthorizedException(response) ==
    [name |-> "UnauthorizedException", response |-> response,
     status |-> UnauthorizedStatus]
ForbiddenException(response) ==
    [name |-> "ForbiddenException", response |-> response,
     status |-> ForbiddenStatus]
\* a NotFoundException that was given the status of its neighbour
NotFoundException_status400(response) ==
    [name |-> "NotFoundException", response |-> response,
     status |-> BadRequestStatus]
NotFoundException(response) ==
    [name |-> "NotFoundException", response |-> response,
     status |-> NotFoundStatus]
InternalServerErrorException(response) ==
    [name |-> "InternalServerErrorException", response |-> response,
     status |-> InternalServerErrorStatus]

(***************************************************************************)
(* UsersService of the exception-handling page.                            *)
(***************************************************************************)
MaxUsers == 3

InvalidId == 999

Emails == {"alice@example.com", "bob@example.com", "test@example.com",
           "carol@example.com"}
Ids == (1 .. MaxUsers + 1) \cup {InvalidId}

Returned(value) == [kind |-> "return", value |-> value]
Thrown(exc)     == [kind |-> "throw", value |-> exc]

\* array.findIndex((u) => u[field] === value): the 0-based index of the first
\* element whose field is value, or -1 (find gives that element, or undefined)
FindIndex(array, field, value) ==
    IF \E k \in DOMAIN array : array[k][field] = value
    THEN (CHOOSE k \in DOMAIN array :
              /\ array[k][field] = value
              /\ \A j \in 1 .. k - 1 : array[j][field] # value) - 1
    ELSE -1

\* the 1-based positions of the elements whose field is value
StoredWith(array, field, value) ==
    {k \in DOMAIN array : array[k][field] = value}

\* array.splice(index, 1): the array without the element at the 0-based index
Splice1(array, index) ==
    SubSeq(array, 1, index) \o SubSeq(array, index + 2, Len(array))

UsersInit ==
    /\ users = << [id |-> 1, email |-> "alice@example.com"],
                  [id |-> 2, email |-> "bob@example.com"] >>
    /\ call = [op |-> "new", arg |-> Null]
    /\ result = Returned(Null)
    /\ before = <<>>

\* findAll()
findAll ==
    /\ call' = [op |-> "findAll", arg |-> Null]
    /\ before' = users
    /\ result' = Returned(users)
    /\ UNCHANGED users
    /\ UNCHANGED notUsersVars

\* a findById that returns what find() gave, without the check for undefined
findById_noThrow(id) ==
    /\ call' = [op |-> "findById", arg |-> id]
    /\ before' = users
    /\ LET index == FindIndex(users, "id", id)
       IN  IF index = -1
           THEN result' = Returned(Null)
           ELSE result' = Returned(users[index + 1])
    /\ UNCHANGED users
    /\ UNCHANGED notUsersVars

\* findById(id)
findById(id) ==
    /\ call' = [op |-> "findById", arg |-> id]
    /\ before' = users
    /\ LET index == FindIndex(users, "id", id)
       IN  IF index = -1
           THEN result' = Thrown(NotFoundException(
                              Str("User " \o ToString(id) \o " not found")))
           ELSE result' = Returned(users[index + 1])
    /\ UNCHANGED users
    /\ UNCHANGED notUsersVars

\* a create that does not look for the email among the stored users
create_noEmailCheck(userData) ==
    /\ Len(users) < MaxUsers
    /\ call' = [op |-> "create", arg |-> userData]
    /\ before' = users
    /\ LET newUser == [id |-> Len(users) + 1, email |-> userData.email]
       IN  /\ users' = Append(users, newUser)
           /\ result' = Returned(newUser)
    /\ UNCHANGED notUsersVars

\* create(userData)
create(userData) ==
    /\ call' = [op |-> "create", arg |-> userData]
    /\ before' = users
    /\ LET existing == FindIndex(users, "email", userData.email)
           newUser == [id |-> Len(users) + 1, email |-> userData.email]
       IN  IF existing # -1
           THEN /\ result' = Thrown(BadRequestException(Str("Email already in use")))
                /\ UNCHANGED users
           ELSE /\ Len(users) < MaxUsers
                /\ users' = Append(users, newUser)
                /\ result' = Returned(newUser)
    /\ UNCHANGED notUsersVars

\* a delete that removes the last user with the id instead of the first
delete_removesLast(id) ==
    /\ call' = [op |-> "delete", arg |-> id]
    /\ before' = users
    /\ IF StoredWith(users, "id", id) = {}
       THEN /\ result' = Thrown(NotFoundException(
                               Str("User " \o ToString(id) \o " not found")))
            /\ UNCHANGED users
       ELSE LET last == CHOOSE k \in StoredWith(users, "id", id) :
                            \A j \in StoredWith(users, "id", id) : j <= k
            IN  /\ result' = Returned(users[last])
                /\ users' = Splice1(users, last - 1)
    /\ UNCHANGED notUsersVars

\* delete(id)
delete(id) ==
    /\ call' = [op |-> "delete", arg |-> id]
    /\ before' = users
    /\ LET index == FindIndex(users, "id", id)
       IN  IF index = -1
           THEN /\ result' = Thrown(NotFoundException(
                                   Str("User " \o ToString(id) \o " not found")))
                /\ UNCHANGED users
           ELSE /\ result' = Returned(users[index + 1])
                /\ users' = Splice1(users, index)
    /\ UNCHANGED notUsersVars

FindAll  == findAll
FindById == \E id \in Ids : findById(id)
Create   == \E email \in Emails : create([email |-> email])
Delete   == \E id \in Ids : delete(id)

UsersNext == FindAll \/ FindById \/ Create \/ Delete

SiteIdle ==
    /\ router = PageAt(<<"docs", "index">>)
    /\ visited = {}
    /\ via = Landing(<<"docs", "index">>)
    /\ vnode = NotRendered
    /\ app = [components |-> {}]
    /\ siteData = [title |-> "KarinJS", cleanUrls |-> TRUE]
    /\ booted = FALSE

InitUsers == UsersInit /\ SiteIdle /\ ReqIdle /\ DiIdle /\ FnIdle /\ SvcIdle

SpecUsers == InitUsers /\ [][UsersNext]_vars

(***************************************************************************)
(* Properties of UsersService.                                             *)
(***************************************************************************)
\* C5: a create(userData) whose email a stored user already had threw
\* BadRequestException and left the list as it was; and in every state
\* reached by create and delete calls no two stored users have the same email.
C5_DuplicateEmailRejected ==
    /\ (call.op = "create" /\ StoredWith(before, "email", call.arg.email) # {}) =>
           /\ result.kind = "throw"
           /\ result.value.name = "BadRequestException"
           /\ users = before
    /\ \A i, j \in DOMAIN users :
           i # j => users[i].email # users[j].email

\* C5 witness: the test of the page: test@example.com was created, and the
\* second create with that email has thrown.
C5_Witness ==
    /\ call = [op |-> "create", arg |-> [email |-> "test@example.com"]]
    /\ result.kind = "throw"
    /\ users = before
    /\ Len(users) = 3 /\ users[3] = [id |-> 3, email |-> "test@example.com"]

\* C6: findById(id) returned a stored user whose id is id (the first in the
\* list) when there was one, threw NotFoundException when there was none, and
\* did not change the list.
C6_FindByIdReturnsOrThrows ==
    call.op = "findById" =>
        /\ users = before
        /\ IF StoredWith(before, "id", call.arg) # {}
           THEN /\ result.kind = "return"
                /\ \E k \in StoredWith(before, "id", call.arg) :
                      /\ result.value = before[k]
                      /\ \A j \in StoredWith(before, "id", call.arg) : k <= j
           ELSE /\ result.kind = "throw"
                /\ result.value.name = "NotFoundException"
                /\ result.value.status = 404

\* C6 witness: findById(999) has thrown on a list that create and delete have
\* changed since construction.
C6_Witness ==
    /\ call = [op |-> "findById", arg |-> InvalidId]
    /\ result.kind = "throw"
    /\ Len(users) = 2 /\ users[1].id = 2 /\ users[2].id = 2

\* C16: delete(id) throws NotFoundException and leaves the list as it was when
\* no stored user has the id; otherwise it removes the first user with the id
\* and nothing else, returns that user, and keeps the others in their order.
C16_DeleteFirstOrThrows ==
    call.op = "delete" =>
        IF StoredWith(before, "id", call.arg) = {}
        THEN /\ result.kind = "throw"
             /\ result.value.name = "NotFoundException"
             /\ result.value.status = 404
             /\ users = before
        ELSE \E k \in StoredWith(before, "id", call.arg) :
                /\ \A j \in StoredWith(before, "id", call.arg) : k <= j
                /\ result.kind = "return"
                /\ result.value = before[k]
                /\ users = SubSeq(before, 1, k - 1) \o SubSeq(before, k + 1, Len(before))

\* C16 witness: delete(2) ran on a list in which two users had the id 2, and
\* the second of them is the one that is left.
C16_Witness ==
    /\ call = [op |-> "delete", arg |-> 2]
    /\ Len(before) = 2 /\ before[1].id = 2 /\ before[2].id = 2
    /\ result.kind = "return"
    /\ users = <<before[2]>>

(***************************************************************************)
(* JavaScript values as the pipes see them.  A value carries its typeof    *)
(* tag; a string is the sequence of its characters, so that trim, parseInt *)
(* and the schema checks work on what the string holds.  (The messages of  *)
(* exceptions are never taken apart and are kept as plain strings.)        *)
(***************************************************************************)
JsString(chars)  == [t |-> "string", v |-> chars]
JsNumber(n)      == [t |-> "number", v |-> n]
JsObject(fields) == [t |-> "object", v |-> fields]
JsNaN            == [t |-> "NaN", v |-> 0]
JsNull           == [t |-> "null", v |-> 0]
JsArray(items)   == [t |-> "array", v |-> items]

\* Object.keys(value) with the value under each key: the fields of an object,
\* and for an array the indices "0", "1", ... with the elements
OwnProperties(value) ==
    IF value.t = "array"
    THEN [key \in {ToString(n - 1) : n \in DOMAIN value.v} |->
             value.v[CHOOSE n \in DOMAIN value.v : ToString(n - 1) = key]]
    ELSE value.v

Whitespace == {" "}

RECURSIVE TrimStart(_)
TrimStart(chars) ==
    IF chars # <<>> /\ Head(chars) \in Whitespace
    THEN TrimStart(Tail(chars))
    ELSE chars

RECURSIVE TrimEnd(_)
TrimEnd(chars) ==
    IF chars # <<>> /\ chars[Len(chars)] \in Whitespace
    THEN TrimEnd(SubSeq(chars, 1, Len(chars) - 1))
    ELSE chars

\* a trim that takes one whitespace character off each end
Trim_oneEach(chars) ==
    LET s == IF chars # <<>> /\ Head(chars) \in Whitespace THEN Tail(chars) ELSE chars
    IN  IF s # <<>> /\ s[Len(s)] \in Whitespace
        THEN SubSeq(s, 1, Len(s) - 1)
        ELSE s

\* String.prototype.trim
Trim(chars) == TrimEnd(TrimStart(chars))

Digits == {"0", "1", "2", "3", "4", "5", "6", "7", "8", "9"}

DigitValue(c) ==
    CASE c = "0" -> 0 [] c = "1" -> 1 [] c = "2" -> 2 [] c = "3" -> 3
      [] c = "4" -> 4 [] c = "5" -> 5 [] c = "6" -> 6 [] c = "7" -> 7
      [] c = "8" -> 8 [] c = "9" -> 9

\* the value of the digits that chars starts with, after acc
RECURSIVE LeadingDigits(_, _)
LeadingDigits(chars, acc) ==
    IF chars # <<>> /\ Head(chars) \in Digits
    THEN LeadingDigits(Tail(chars), acc * 10 + DigitValue(Head(chars)))
    ELSE acc

\* parseInt(value, 10) of a string: leading whitespace is skipped, a sign is
\* read, then the digits up to the first other character; NaN without a digit
ParseInt(chars) ==
    LET s == TrimStart(chars)
        signed == s # <<>> /\ Head(s) \in {"-", "+"}
        body == IF signed THEN Tail(s) ELSE s
    IN  IF body = <<>> \/ Head(body) \notin Digits
        THEN JsNaN
        ELSE JsNumber((IF signed /\ Head(s) = "-" THEN -1 ELSE 1)
                      * LeadingDigits(body, 0))

(***************************************************************************)
(* The pipes of the pipes page.  transform gives Returned(value) or        *)
(* Thrown(exception).                                                      *)
(***************************************************************************)
\* one field of a z.object schema: the field's type, its one check with the
\* check's argument, and the message of the check
Rule(field, type, check, arg, message) ==
    [field |-> field, type |-> type, check |-> check, arg |-> arg,
     message |-> message]

MinNameLength == 3
MinAge == 18

\* CreateUserSchema of the pipes page (custom messages)
CreateUserSchema ==
    << Rule("name", "string", "min", MinNameLength,
            "Name must be at least 3 characters"),
       Rule("email", "string", "email", 0, "Must be a valid email"),
       Rule("age", "number", "min", MinAge, "Must be at least 18 years old") >>

\* CreateUserSchema of the exception-handling page (Zod's own messages)
CreateUserSchemaDefault ==
    << Rule("name", "string", "min", MinNameLength,
            "String must contain at least 3 character(s)"),
       Rule("email", "string", "email", 0, "Invalid email"),
       Rule("age", "number", "min", MinAge,
            "Number must be greater than or equal to 18") >>

\* z.string().email(): one "@" with a name before it and, after it, a domain
\* with a dot inside; no whitespace
EmailValid(chars) ==
    /\ \A k \in DOMAIN chars : chars[k] \notin Whitespace
    /\ Cardinality({k \in DOMAIN chars : chars[k] = "@"}) = 1
    /\ \E at \in DOMAIN chars :
          /\ chars[at] = "@"
          /\ at > 1
          /\ \E dot \in DOMAIN chars :
                chars[dot] = "." /\ dot > at + 1 /\ dot < Len(chars)

\* does the field's value pass the rule's check
Passes(rule, x) ==
    CASE rule.check = "min" /\ rule.type = "string" -> Len(x.v) >= rule.arg
      [] rule.check = "min" /\ rule.type = "number" -> x.v >= rule.arg
      [] rule.check = "email"                       -> EmailValid(x.v)

\* the issue code Zod gives a failed check
IssueCode(rule) ==
    IF rule.check = "email" THEN "invalid_string" ELSE "too_small"

\* the errors of a body under a schema: the failed rules in schema order
RECURSIVE ValidationErrors(_, _)
ValidationErrors(schema, body) ==
    IF schema = <<>> THEN <<>>
    ELSE LET rule == Head(schema)
             rest == ValidationErrors(Tail(schema), body)
         IN  IF Passes(rule, body.v[rule.field])
             THEN rest
             ELSE << [field |-> rule.field, message |-> rule.message,
                      code |-> IssueCode(rule)] >> \o rest

\* a ZodValidationPipe that reports the first failed field only
ZodValidationPipe_firstError(schema, value) ==
    LET errors == ValidationErrors(schema, value)
    IN  IF errors = <<>>
        THEN Returned(value)
        ELSE Thrown(BadRequestException(
                 Obj([message |-> "Validation failed",
                      errors |-> <<Head(errors)>>])))

\* new ZodValidationPipe(schema).transform(value)
ZodValidationPipe(schema, value) ==
    LET errors == ValidationErrors(schema, value)
    IN  IF errors = <<>>
        THEN Returned(value)
        ELSE Thrown(BadRequestException(
                 Obj([message |-> "Validation failed", errors |-> errors])))

\* new ParseIntPipe().transform(value, metadata): a plain Error, not an
\* HttpException, is thrown
ParseIntPipe(value) ==
    LET parsed == ParseInt(value.v)
    IN  IF parsed.t = "NaN"
        THEN Thrown([name |-> "Error",
                     response |-> Str("id must be a valid integer"),
                     status |-> 0])
        ELSE Returned(parsed)

\* new TrimPipe().transform(value)
TrimPipe(value) ==
    IF value.t = "string"
    THEN Returned(JsString(Trim(value.v)))
    ELSE IF value.t \in {"object", "array"}
    THEN Returned(JsObject(
             [key \in DOMAIN OwnProperties(value) |->
                 IF OwnProperties(value)[key].t = "string"
                 THEN JsString(Trim(OwnProperties(value)[key].v))
                 ELSE OwnProperties(value)[key]]))
    ELSE Returned(value)

(***************************************************************************)
(* The throw expressions of the exception-handling page and the exception  *)
(* each one makes.                                                         *)
(***************************************************************************)
ConflictStatus           == 409
PaymentRequiredStatus    == 402
ServiceUnavailableStatus == 503

\* `throw new Class(payload)` or `throw new HttpException(payload, status)`;
\* for the custom classes payload holds the constructor's string argument
ThrowNew(class, payload, status) ==
    [class |-> class, payload |-> payload, status |-> status]

Named(name, exc) == [exc EXCEPT !.name = name]

\* the exception object a throw expression constructs
New(expr) ==
    CASE expr.class = "HttpException" ->
             HttpException(expr.payload, expr.status)
      [] expr.class = "BadRequestException" ->
             BadRequestException(expr.payload)
      [] expr.class = "UnauthorizedException" ->
             UnauthorizedException(expr.payload)
      [] expr.class = "ForbiddenException" ->
             ForbiddenException(expr.payload)
      [] expr.class = "NotFoundException" ->
             NotFoundException(expr.payload)
      [] expr.class = "InternalServerErrorException" ->
             InternalServerErrorException(expr.payload)
      [] expr.class = "UserAlreadyExistsException" ->
             Named(expr.class,
                   HttpException(Obj([message |-> "User already exists",
                                      email |-> expr.payload.fields.message]),
                                 ConflictStatus))
      [] expr.class = "PaymentFailedException" ->
             Named(expr.class,
                   HttpException(Obj([message |-> "Payment failed",
                                      reason |-> expr.payload.fields.message]),
                                 PaymentRequiredStatus))
      [] expr.class = "ResourceConflictException" ->
             Named(expr.class,
                   HttpException(Obj([message |-> expr.payload.fields.message
                                                   \o " conflict detected"]),
                                 ConflictStatus))
      [] expr.class = "ServiceUnavailableException" ->
             Named(expr.class,
                   HttpException(Obj([message |-> expr.payload.fields.message
                                                   \o " is currently unavailable"]),
                                 ServiceUnavailableStatus))

IsHttpException(exc) == exc.name # "Error"

\* a formatter that puts the object payload under one "message" field
FormatResponse_nested(exc) ==
    IF exc.response.type = "string"
    THEN [statusCode |-> exc.status, message |-> exc.response.fields.message]
    ELSE [statusCode |-> exc.status, message |-> exc.response.fields]

\* the JSON body the framework answers with for an HttpException
FormatResponse(exc) ==
    IF exc.response.type = "string"
    THEN [statusCode |-> exc.status, message |-> exc.response.fields.message]
    ELSE [statusCode |-> exc.status] @@ exc.response.fields

ValidationFailedObject ==
    Obj([message |-> "Validation failed",
         errors |-> << [field |-> "email", message |-> "Invalid email format"],
                       [field |-> "age", message |-> "Must be at least 18"] >>])

ValidationFailedWithData ==
    Obj([message |-> "Validation failed",
         timestamp |-> "2024-01-15T10:30:00.000Z",
         path |-> "/api/users"])

\* the page's examples that come with their response: what is thrown and the
\* JSON the page shows for it
DocumentedExamples ==
    << [threw |-> ThrowNew("HttpException", Str("Something went wrong"), 400),
        response |-> [statusCode |-> 400, message |-> "Something went wrong"]],
       [threw |-> ThrowNew("BadRequestException", Str("Email is required"), 0),
        response |-> [statusCode |-> 400, message |-> "Email is required"]],
       [threw |-> ThrowNew("UnauthorizedException", Str("Invalid credentials"), 0),
        response |-> [statusCode |-> 401, message |-> "Invalid credentials"]],
       [threw |-> ThrowNew("ForbiddenException",
                           Str("Only admins can delete users"), 0),
        response |-> [statusCode |-> 403,
                      message |-> "Only admins can delete users"]],
       [threw |-> ThrowNew("NotFoundException",
                           Str("User with ID " \o ToString(123) \o " not found"), 0),
        response |-> [statusCode |-> 404,
                      message |-> "User with ID 123 not found"]],
       [threw |-> ThrowNew("InternalServerErrorException",
                           Str("Failed to fetch users"), 0),
        response |-> [statusCode |-> 500, message |-> "Failed to fetch users"]],
       [threw |-> ThrowNew("BadRequestException", ValidationFailedObject, 0),
        response |-> [statusCode |-> 400, message |-> "Validation failed",
                      errors |-> << [field |-> "email",
                                     message |-> "Invalid email format"],
                                    [field |-> "age",
                                     message |-> "Must be at least 18"] >>]],
       [threw |-> ThrowNew("UserAlreadyExistsException",
                           Str("user@example.com"), 0),
        response |-> [statusCode |-> 409, message |-> "User already exists",
                      email |-> "user@example.com"]],
       [threw |-> ThrowNew("NotFoundException", Str("User not found"), 0),
        response |-> [statusCode |-> 404, message |-> "User not found"]],
       [threw |-> ThrowNew("BadRequestException", ValidationFailedWithData, 0),
        response |-> [statusCode |-> 400, message |-> "Validation failed",
                      timestamp |-> "2024-01-15T10:30:00.000Z",
                      path |-> "/api/users"]] >>

\* the statuses the page passes to HttpException
HttpStatuses == {400, 402, 404, 409, 503}

\* the page's other throw expressions (no response is shown for them)
OtherThrows ==
    << ThrowNew("PaymentFailedException", Str("card declined"), 0),
       ThrowNew("ResourceConflictException", Str("Order"), 0),
       ThrowNew("ServiceUnavailableException", Str("Database"), 0),
       ThrowNew("BadRequestException", Str("Record already exists"), 0),
       ThrowNew("InternalServerErrorException", Str("Processing failed"), 0),
       ThrowNew("UnauthorizedException", Str("Invalid or expired token"), 0),
       ThrowNew("ForbiddenException", Str("Cannot delete other users"), 0),
       ThrowNew("HttpException", Str("Not found"), 404) >>

\* what a handler of the page may throw
HandlerThrows ==
    {DocumentedExamples[k].threw : k \in DOMAIN DocumentedExamples}
        \cup {OtherThrows[k] : k \in DOMAIN OtherThrows}
        \cup {ThrowNew("HttpException", Str("Something went wrong"), st) :
                 st \in HttpStatuses}

(***************************************************************************)
(* A request on its way through the framework: the pipes of its parameter  *)
(* run one after the other, then the route handler; an exception ends the  *)
(* request with an error response.                                         *)
(***************************************************************************)
Pipe(name, schema) == [name |-> name, schema |-> schema]

\* the pipe bound to the parameter of each route of the pages
ParamPipes(r) ==
    CASE r = "POST /users"       -> << Pipe("ZodValidationPipe", CreateUserSchema) >>
      [] r = "POST /users (exception-handling)" ->
                                    << Pipe("ZodValidationPipe", CreateUserSchemaDefault) >>
      [] r = "GET /posts/:id"    -> << Pipe("ParseIntPipe", <<>>) >>
      [] r = "POST /"            -> << Pipe("TrimPipe", <<>>) >>

Routes == {"POST /users", "POST /users (exception-handling)",
           "GET /posts/:id", "POST /"}

\* the pipes that apply to the parameter of a request, in the order they run:
\* the global ones, then the parameter's own
PipesOf(r, globals) == globals \o ParamPipes(r)

\* pipe.transform(value)
Transform(pipe, v) ==
    CASE pipe.name = "ZodValidationPipe" -> ZodValidationPipe(pipe.schema, v)
      [] pipe.name = "ParseIntPipe"      -> ParseIntPipe(v)
      [] pipe.name = "TrimPipe"          -> TrimPipe(v)

\* request values
NameA      == <<"A">>
NameJo     == <<"J", "o">>
NameBob    == <<"B", "o", "b">>
NamePadded == <<" ", "A", "l", " ">>
InvalidEmail == <<"i", "n", "v", "a", "l", "i", "d", "-", "e", "m", "a", "i", "l">>
ValidEmail   == <<"j", "o", "@", "x", ".", "i", "o">>

UserBody(name, email, age) ==
    JsObject([name |-> JsString(name), email |-> JsString(email),
              age |-> JsNumber(age)])

UserBodies ==
    {UserBody(name, email, age) :
        name \in {NameA, NameJo, NameBob, NamePadded},
        email \in {InvalidEmail, ValidEmail},
        age \in {15, MinAge}}

IdParams ==
    {JsString(<<"1", "2", "3">>), JsString(<<"a", "b", "c">>),
     JsString(<<"4", "2", "x">>), JsString(<<" ", "7">>)}

TrimBodies ==
    {JsString(<<" ", "h", "i", " ">>),
     JsObject([title |-> JsString(<<" ", "a", " ">>), count |-> JsNumber(1)]),
     JsNumber(5)}

Inputs(r) ==
    CASE r \in {"POST /users", "POST /users (exception-handling)"} -> UserBodies
      [] r = "GET /posts/:id" -> IdParams
      [] r = "POST /"         -> TrimBodies

\* what the handler of the route returns for its argument
Handler(r, a) ==
    CASE r = "POST /users" -> [message |-> "User created", data |-> a]
      [] r = "POST /users (exception-handling)" ->
             JsObject([id |-> JsNumber(3)] @@ a.v)
      [] r = "GET /posts/:id" -> [id |-> a.v, type |-> a.t]
      [] r = "POST /"         -> a

Event(ev, k) == [ev |-> ev, pipe |-> k]

ReqInit ==
    /\ pc = "boot"
    /\ globalPipes = <<>>
    /\ reqRoute = "none"
    /\ reqValue = Null
    /\ idx = 0
    /\ log = <<>>
    /\ handled = [invoked |-> FALSE, arg |-> Null]
    /\ threw = Null
    /\ thrown = Null
    /\ reqResponse = [kind |-> "none", body |-> <<>>]

\* app.useGlobalPipes(new TrimPipe())
UseGlobalPipes ==
    /\ pc = "boot"
    /\ globalPipes = <<>>
    /\ globalPipes' = << Pipe("TrimPipe", <<>>) >>
    /\ UNCHANGED <<pc, reqRoute, reqValue, idx, log, handled, threw, thrown,
                   reqResponse>>
    /\ UNCHANGED notReqVars

\* app.listen(3000)
Listen ==
    /\ pc = "boot"
    /\ pc' = "idle"
    /\ UNCHANGED <<globalPipes, reqRoute, reqValue, idx, log, handled, threw,
                   thrown, reqResponse>>
    /\ UNCHANGED notReqVars

\* a request arrives
Receive ==
    /\ pc = "idle"
    /\ \E r \in Routes : \E input \in Inputs(r) :
          /\ reqRoute' = r
          /\ reqValue' = input
    /\ pc' = "pipes"
    /\ idx' = 0
    /\ log' = <<>>
    /\ handled' = [invoked |-> FALSE, arg |-> Null]
    /\ threw' = Null
    /\ thrown' = Null
    /\ reqResponse' = [kind |-> "none", body |-> <<>>]
    /\ UNCHANGED globalPipes
    /\ UNCHANGED notReqVars

\* the next pipe transforms the value, or throws
RunPipe ==
    /\ pc = "pipes"
    /\ idx < Len(PipesOf(reqRoute, globalPipes))
    /\ LET out == Transform(PipesOf(reqRoute, globalPipes)[idx + 1], reqValue)
       IN  IF out.kind = "return"
           THEN /\ reqValue' = out.value
                /\ idx' = idx + 1
                /\ log' = Append(log, Event("return", idx + 1))
                /\ UNCHANGED <<pc, thrown>>
           ELSE /\ thrown' = out.value
                /\ pc' = "thrown"
                /\ log' = Append(log, Event("throw", idx + 1))
                /\ UNCHANGED <<reqValue, idx>>
    /\ UNCHANGED <<globalPipes, reqRoute, handled, threw, reqResponse>>
    /\ UNCHANGED notReqVars

\* a framework that calls the handler as soon as the request is in
InvokeHandler_beforePipes ==
    /\ pc = "pipes"
    /\ handled' = [invoked |-> TRUE, arg |-> reqValue]
    /\ log' = Append(log, Event("handler", 0))
    /\ reqResponse' = [kind |-> "ok", body |-> Handler(reqRoute, reqValue)]
    /\ pc' = "done"
    /\ UNCHANGED <<globalPipes, reqRoute, reqValue, idx, threw, thrown>>
    /\ UNCHANGED notReqVars

\* every pipe has returned: the handler is invoked with the value and returns
InvokeHandler ==
    /\ pc = "pipes"
    /\ idx = Len(PipesOf(reqRoute, globalPipes))
    /\ handled' = [invoked |-> TRUE, arg |-> reqValue]
    /\ log' = Append(log, Event("handler", 0))
    /\ reqResponse' = [kind |-> "ok", body |-> Handler(reqRoute, reqValue)]
    /\ pc' = "done"
    /\ UNCHANGED <<globalPipes, reqRoute, reqValue, idx, threw, thrown>>
    /\ UNCHANGED notReqVars

\* every pipe has returned: the handler is invoked and throws
HandlerThrow ==
    /\ pc = "pipes"
    /\ idx = Len(PipesOf(reqRoute, globalPipes))
    /\ \E expr \in HandlerThrows :
          /\ threw' = expr
          /\ thrown' = New(expr)
    /\ handled' = [invoked |-> TRUE, arg |-> reqValue]
    /\ log' = Append(log, Event("handler", 0))
    /\ pc' = "thrown"
    /\ UNCHANGED <<globalPipes, reqRoute, reqValue, idx, reqResponse>>
    /\ UNCHANGED notReqVars

\* the framework catches the exception and answers with its formatted body
\* (the pages show no response for an Error that is no HttpException)
SendError ==
    /\ pc = "thrown"
    /\ reqResponse' =
          IF IsHttpException(thrown)
          THEN [kind |-> "error", body |-> FormatResponse(thrown)]
          ELSE [kind |-> "error", body |-> <<>>]
    /\ pc' = "done"
    /\ UNCHANGED <<globalPipes, reqRoute, reqValue, idx, log, handled, threw,
                   thrown>>
    /\ UNCHANGED notReqVars

\* the server waits for the next request
NextRequest ==
    /\ pc = "done"
    /\ pc' = "idle"
    /\ UNCHANGED <<globalPipes, reqRoute, reqValue, idx, log, handled, threw,
                   thrown, reqResponse>>
    /\ UNCHANGED notReqVars

ReqNext ==
    \/ UseGlobalPipes \/ Listen \/ Receive \/ RunPipe \/ InvokeHandler
    \/ HandlerThrow \/ SendError \/ NextRequest

InitReq == ReqInit /\ SiteIdle /\ UsersIdle /\ DiIdle /\ FnIdle /\ SvcIdle

SpecReq == InitReq /\ [][ReqNext]_vars

(***************************************************************************)
(* Properties of requests, pipes and exception responses.                  *)
(***************************************************************************)
ZodRoutes == {"POST /users", "POST /users (exception-handling)"}

\* the place of the ZodValidationPipe among the pipes of a Zod route
ZodIndex == Len(globalPipes) + 1

Happened(ev, k) == \E p \in DOMAIN log : log[p] = Event(ev, k)

\* the fields of a user body that break CreateUserSchema
FailingFields(body) ==
    {f \in {"name"} : Len(body.v.name.v) < 3}
        \cup {f \in {"email"} : body.v.email.v # ValidEmail}
        \cup {f \in {"age"} : body.v.age.v < 18}

C9_ResponseFormat ==
    (reqResponse.kind = "error" /\ IsHttpException(thrown)) =>
        LET body == reqResponse.body
            payload == thrown.response
        IN  /\ body.statusCode = thrown.status
            /\ "message" \in DOMAIN body
            /\ IF payload.type = "string"
               THEN /\ DOMAIN body = {"statusCode", "message"}
                    /\ body.message = payload.fields.message
               ELSE /\ DOMAIN body = {"statusCode"} \cup DOMAIN payload.fields
                    /\ \A f \in DOMAIN payload.fields :
                          body[f] = payload.fields[f]
            /\ handled.invoked =>
                  \A k \in DOMAIN DocumentedExamples :
                     threw = DocumentedExamples[k].threw =>
                        body = DocumentedExamples[k].response

\* C9 witness: UserAlreadyExistsException("user@example.com") was thrown and
\* answered with the object's email field next to statusCode and message.
C9_Witness ==
    /\ reqResponse.kind = "error"
    /\ handled.invoked
    /\ threw.class = "UserAlreadyExistsException"
    /\ reqResponse.body = [statusCode |-> 409, message |-> "User already exists",
                           email |-> "user@example.com"]

BuiltInStatus(name) ==
    CASE name = "BadRequestException"          -> 400
      [] name = "UnauthorizedException"        -> 401
      [] name = "ForbiddenException"           -> 403
      [] name = "NotFoundException"            -> 404
      [] name = "InternalServerErrorException" -> 500

\* C10: the response to a built-in exception carries the class's own status
\* (400, 401, 403, 404, 500), whatever threw it, and the response to
\* `new HttpException(payload, status)` carries that status.
C10_StatusPerClass ==
    (reqResponse.kind = "error" /\ IsHttpException(thrown)) =>
        /\ thrown.name \in {"BadRequestException", "UnauthorizedException",
                             "ForbiddenException", "NotFoundException",
                             "InternalServerErrorException"} =>
              reqResponse.body.statusCode = BuiltInStatus(thrown.name)
        /\ (handled.invoked /\ threw.class = "HttpException") =>
              reqResponse.body.statusCode = threw.status

\* C10 witness: a NotFoundException was answered with 404 after a handler
\* threw it on a route with two pipes.
C10_Witness ==
    /\ reqResponse.kind = "error"
    /\ handled.invoked
    /\ Len(log) = 3
    /\ threw.class = "NotFoundException"
    /\ reqResponse.body.statusCode = 404

(***************************************************************************)
(* Dependency injection, as the services page documents it.  The English   *)
(* page and the Spanish page each describe the container; a run of the     *)
(* model is the container of one of the two pages.  A service instance is  *)
(* a record of its class and its private fields; a class that injects a    *)
(* service holds the index of the instance the container gave it.          *)
(***************************************************************************)
MaxInstances == 5

DiPages == {"en", "es"}

\* the classes with a constructor that injects services
Injectors == {"UsersController", "UsersService", "AuthService"}

\* the service classes of a page
ClassesOf(page) ==
    IF page = "en"
    THEN {"ConfigService", "CacheService", "DatabaseService", "HelperService"}
    ELSE {"ConfigService", "CacheService", "DatabaseService"}

Classes == ClassesOf("en") \cup ClassesOf("es")

\* the decorator the page puts on the class
Decorator(page, class) ==
    CASE page = "en" /\ class = "HelperService" -> "injectable"
      [] page = "es" /\ class = "ConfigService" -> "injectable"
      [] OTHER -> "singleton"

\* the lifecycle every decorator would have if each injection made an instance
Lifecycle_allTransient(page, decorator) == "transient"

\* the lifecycle the page states for a decorator
Lifecycle(page, decorator) ==
    IF decorator = "singleton" THEN "singleton"
    ELSE IF page = "en" THEN "transient" ELSE "singleton"

ConfigKeys == {"apiKey"}
ConfigValues == {"secret", "changed"}
CacheKeys == {"user:1"}
CacheValues == {"Alice", "Bob"}
Undefined == "undefined"

\* new Class(): the private fields as the class initialises them
NewInstance(class) ==
    [class     |-> class,
     config    |-> [k \in ConfigKeys |-> IF k = "apiKey" THEN "secret" ELSE Undefined],
     cache     |-> [k \in CacheKeys |-> Undefined],
     connected |-> FALSE]

\* the instances of a class the container has made
InstancesOf(class, made) == {n \in DOMAIN made : made[n].class = class}

\* the container resolves a constructor parameter of type class: the index of
\* the instance handed over, Len(made) + 1 when a new one is constructed
ResolveIndex(page, class, made) ==
    IF /\ Lifecycle(page, Decorator(page, class)) = "singleton"
       /\ InstancesOf(class, made) # {}
    THEN CHOOSE n \in InstancesOf(class, made) : \A m \in InstancesOf(class, made) : n <= m
    ELSE Len(made) + 1

DiCall(op, i, class, key, value, thrw, res) ==
    [op |-> op, injector |-> i, class |-> class, key |-> key, value |-> value,
     threw |-> thrw, result |-> res]

NoCall == DiCall("none", Null, Null, Null, Null, FALSE, Null)

\* the instance of class that injector i holds
Held(i, class) == heap[injected[i][class]]

Holds(i, class) == injected[i][class] # 0

DiInit ==
    /\ diPage \in DiPages
    /\ heap = <<>>
    /\ injected = [i \in Injectors |-> [c \in Classes |-> 0]]
    /\ diCall = NoCall
    /\ connects = {}

\* the container constructs injector i and resolves its parameter of type class
Inject(i, class) ==
    /\ class \in ClassesOf(diPage)
    /\ ~Holds(i, class)
    /\ LET n == ResolveIndex(diPage, class, heap) IN
        /\ n <= MaxInstances
        /\ heap' = IF n > Len(heap) THEN Append(heap, NewInstance(class)) ELSE heap
        /\ injected' = [injected EXCEPT ![i][class] = n]
    /\ diCall' = DiCall("inject", i, class, Null, Null, FALSE, Null)
    /\ UNCHANGED <<diPage, connects>>
    /\ UNCHANGED notDiVars

\* ConfigService.setConfig(key, value), through injector i
SetConfig(i, key, value) ==
    /\ diPage = "en"
    /\ Holds(i, "ConfigService")
    /\ heap' = [heap EXCEPT ![injected[i]["ConfigService"]].config[key] = value]
    /\ diCall' = DiCall("setConfig", i, "ConfigService", key, value, FALSE, Undefined)
    /\ UNCHANGED <<diPage, injected, connects>>
    /\ UNCHANGED notDiVars

\* ConfigService.getConfig()[key], through injector i
GetConfig(i, key) ==
    /\ Holds(i, "ConfigService")
    /\ diCall' = DiCall("getConfig", i, "ConfigService", key, Null, FALSE,
                        Held(i, "ConfigService").config[key])
    /\ UNCHANGED <<diPage, heap, injected, connects>>
    /\ UNCHANGED notDiVars

\* CacheService.set(key, value), through injector i
CacheSet(i, key, value) ==
    /\ Holds(i, "CacheService")
    /\ heap' = [heap EXCEPT ![injected[i]["CacheService"]].cache[key] = value]
    /\ diCall' = DiCall("set", i, "CacheService", key, value, FALSE, Undefined)
    /\ UNCHANGED <<diPage, injected, connects>>
    /\ UNCHANGED notDiVars

\* CacheService.get(key), through injector i
CacheGet(i, key) ==
    /\ Holds(i, "CacheService")
    /\ diCall' = DiCall("get", i, "CacheService", key, Null, FALSE,
                        Held(i, "CacheService").cache[key])
    /\ UNCHANGED <<diPage, heap, injected, connects>>
    /\ UNCHANGED notDiVars

\* the message of the Error that query throws, as the page words it
NotConnectedMessage(page) ==
    IF page = "en" THEN "Database not connected" ELSE "Base de datos no conectada"

Urls == {"mongodb://localhost", "postgres://db"}
Sqls == {"SELECT 1", "SELECT * FROM users"}
EmptyRows == "[]"

\* query as it would be without the test of this.connected
query_unchecked(page, instance, sql) == [threw |-> FALSE, result |-> EmptyRows]

\* DatabaseService.query(sql) on an instance: what it throws or returns
query(page, instance, sql) ==
    IF ~instance.connected
    THEN [threw |-> TRUE, result |-> NotConnectedMessage(page)]
    ELSE [threw |-> FALSE, result |-> EmptyRows]

\* DatabaseService.connect(url), through injector i
Connect(i, url) ==
    /\ Holds(i, "DatabaseService")
    /\ heap' = [heap EXCEPT ![injected[i]["DatabaseService"]].connected = TRUE]
    /\ connects' = connects \cup {injected[i]["DatabaseService"]}
    /\ diCall' = DiCall("connect", i, "DatabaseService", Null, url, FALSE, Undefined)
    /\ UNCHANGED <<diPage, injected>>
    /\ UNCHANGED notDiVars

\* DatabaseService.isConnected(), through injector i
IsConnected(i) ==
    /\ Holds(i, "DatabaseService")
    /\ diCall' = DiCall("isConnected", i, "DatabaseService", Null, Null, FALSE,
                        IF Held(i, "DatabaseService").connected THEN "true" ELSE "false")
    /\ UNCHANGED <<diPage, heap, injected, connects>>
    /\ UNCHANGED notDiVars

\* DatabaseService.query(sql), through injector i
Query(i, sql) ==
    /\ Holds(i, "DatabaseService")
    /\ LET out == query(diPage, Held(i, "DatabaseService"), sql) IN
        diCall' = DiCall("query", i, "DatabaseService", Null, sql, out.threw, out.result)
    /\ UNCHANGED <<diPage, heap, injected, connects>>
    /\ UNCHANGED notDiVars

\* the classes that inject the services of the scopes section
ScopeInjectors == {"UsersController", "UsersService"}

\* the container with the classes of the scopes section
DiNext ==
    \/ \E i \in ScopeInjectors, c \in Classes \ {"DatabaseService"} : Inject(i, c)
    \/ \E i \in ScopeInjectors, k \in ConfigKeys, v \in ConfigValues : SetConfig(i, k, v)
    \/ \E i \in ScopeInjectors, k \in ConfigKeys : GetConfig(i, k)
    \/ \E i \in ScopeInjectors, k \in CacheKeys, v \in CacheValues : CacheSet(i, k, v)
    \/ \E i \in ScopeInjectors, k \in CacheKeys : CacheGet(i, k)

InitDi == DiInit /\ SiteIdle /\ UsersIdle /\ ReqIdle /\ FnIdle /\ SvcIdle

SpecDi == InitDi /\ [][DiNext]_vars

\* the container with DatabaseService, the first of the practical examples
DbNext ==
    \/ \E i \in Injectors : Inject(i, "DatabaseService")
    \/ \E i \in Injectors, u \in Urls : Connect(i, u)
    \/ \E i \in Injectors : IsConnected(i)
    \/ \E i \in Injectors, q \in Sqls : Query(i, q)

InitDb == DiInit /\ SiteIdle /\ UsersIdle /\ ReqIdle /\ FnIdle /\ SvcIdle

SpecDb == InitDb /\ [][DbNext]_vars

(***************************************************************************)
(* Properties of the container and of DatabaseService.                     *)
(***************************************************************************)
\* the injectors that hold an instance of the class
Holders(class) == {i \in Injectors : Holds(i, class)}

\* C11: a class decorated with @singleton() has one instance for the whole
\* application: all the classes that inject it hold the same instance, and
\* what one of them has just written with ConfigService.setConfig or
\* CacheService.set is what every one of them reads.
C11_SingletonShared ==
    diPage \in DiPages =>
        /\ \A c \in ClassesOf(diPage) : \A i, j \in Holders(c) :
            Decorator(diPage, c) = "singleton" => injected[i][c] = injected[j][c]
        /\ diCall.op = "setConfig" /\ Decorator(diPage, "ConfigService") = "singleton" =>
            \A j \in Holders("ConfigService") :
                Held(j, "ConfigService").config[diCall.key] = diCall.value
        /\ diCall.op = "set" /\ Decorator(diPage, "CacheService") = "singleton" =>
            \A j \in Holders("CacheService") :
                Held(j, "CacheService").cache[diCall.key] = diCall.value

\* C11 witness: UsersController has just called setConfig("apiKey", "changed")
\* and UsersService, which injects ConfigService too, reads the new value.
C11_Witness ==
    /\ diCall.op = "setConfig"
    /\ diCall.injector = "UsersController"
    /\ Holds("UsersService", "ConfigService")
    /\ Held("UsersService", "ConfigService").config["apiKey"] = "changed"

\* C12: a class decorated with @injectable() is transient: two classes that
\* inject it never hold the same instance.
C12_InjectableTransient ==
    diPage \in DiPages =>
        \A c \in ClassesOf(diPage) : \A i, j \in Holders(c) :
            Decorator(diPage, c) = "injectable" /\ i # j =>
                injected[i][c] # injected[j][c]

\* the last call was DatabaseService.query and this is the instance it ran on
QueriedInstance == injected[diCall.injector]["DatabaseService"]

\* connected never goes from true back to false on any instance
ConnectedStays ==
    \A n \in DOMAIN heap : heap[n].connected => heap'[n].connected

\* C20 as stated: query returns only on an instance on which connect completed
\* before, on any other instance it throws "Database not connected", and
\* connected, once true, stays true.
C20_QueryNeedsConnect ==
    /\ [](diCall.op = "query" =>
            /\ ~diCall.threw <=> QueriedInstance \in connects
            /\ diCall.threw => diCall.result = "Database not connected")
    /\ [][ConnectedStays]_vars

\* C20 with the message of each page: query returns only on an instance on
\* which connect completed before; on any other instance it throws an Error
\* whose message is "Database not connected" on the English page and "Base de
\* datos no conectada" on the Spanish page; connected, once true, stays true.
C20_QueryNeedsConnectPerPage ==
    /\ [](diCall.op = "query" =>
            /\ ~diCall.threw <=> QueriedInstance \in connects
            /\ diCall.threw /\ diPage = "en" =>
                diCall.result = "Database not connected"
            /\ diCall.threw /\ diPage = "es" =>
                diCall.result = "Base de datos no conectada"
            /\ ~diCall.threw => diCall.result = EmptyRows)
    /\ [][ConnectedStays]_vars

\* C20 witness: a query returned its rows through UsersService on the instance
\* that is connected.
C20_Witness ==
    /\ diCall.op = "query"
    /\ diCall.injector = "UsersService"
    /\ ~diCall.threw
    /\ Held("UsersService", "DatabaseService").connected
    /\ Holds("UsersController", "DatabaseService")

(***************************************************************************)
(* Code samples that are functions of their arguments and environment:     *)
(* the Development vs Production handler, TrimPipe and AuthGuard.  A run   *)
(* sets one call up and makes it.                                          *)
(***************************************************************************)
\* what a call gave: kind is "return" or "throw", left is what it left behind
Out(kind, value, left) == [kind |-> kind, value |-> value, left |-> left]

NotCalled == Out("none", Null, Null)

\* process.env.NODE_ENV
NodeEnvs == {"production", "development", "test", "Production", Undefined}

ErrorMessages == {"connect ECONNREFUSED 10.0.0.5:5432", "relation users does not exist"}
ErrorStacks == {"at Pool.connect (pool.js:12)", "at UsersService.findAll (users.service.ts:9)"}

\* what usersService.findAll() does in the handler: it resolves with the users
\* or rejects with an error
FindAllOutcomes ==
    {[failed |-> FALSE, message |-> "", stack |-> ""]}
        \cup {[failed |-> TRUE, message |-> m, stack |-> st] :
                m \in ErrorMessages, st \in ErrorStacks}

FailedToFetch == "Failed to fetch users"

\* the handler as it would be if it took the detailed branch in every environment
findAllHandler_alwaysDetailed(nodeEnv, outcome) ==
    IF ~outcome.failed
    THEN Out("return", "users", Null)
    ELSE Out("throw",
             InternalServerErrorException(
                 Obj([message |-> FailedToFetch, error |-> outcome.message,
                      stack |-> outcome.stack])),
             Null)

\* UsersController.findAll of the Development vs Production section
findAllHandler(nodeEnv, outcome) ==
    IF ~outcome.failed
    THEN Out("return", "users", Null)
    ELSE LET isDev == nodeEnv # "production" IN
         IF isDev
         THEN Out("throw",
                  InternalServerErrorException(
                      Obj([message |-> FailedToFetch, error |-> outcome.message,
                           stack |-> outcome.stack])),
                  Null)
         ELSE Out("throw", InternalServerErrorException(Str(FailedToFetch)), Null)

FindAllInputs == [nodeEnv : NodeEnvs, outcome : FindAllOutcomes]

\* GET / of the Development vs Production section
CallFindAllHandler ==
    /\ fnName = "findAll"
    /\ fnOut.kind = "none"
    /\ fnOut' = findAllHandler(fnIn.nodeEnv, fnIn.outcome)
    /\ UNCHANGED <<fnName, fnIn>>
    /\ UNCHANGED notFnVars

\* the values TrimPipe is given: strings, a number, null, flat bodies, bodies
\* with an object or an array inside, and an array
TrimStrings ==
    {<<" ", "h", "i", " ">>, <<"h", "i">>, <<" ">>, <<>>, <<" ", " ", "a", " ", " ">>}

TrimLeaves == {JsString(chars) : chars \in TrimStrings} \cup {JsNumber(5), JsNull}

TrimFlatBodies ==
    {JsObject([title |-> a, count |-> b]) :
        a \in TrimLeaves, b \in {JsNumber(1), JsString(<<" ", "2">>)}}

TrimNestedBodies ==
    {JsObject([user |-> JsObject([name |-> JsString(chars)])]) : chars \in TrimStrings}
        \cup {JsObject([tags |-> JsArray(<<JsString(chars)>>)]) : chars \in TrimStrings}

TrimArrays == {JsArray(<<JsString(chars), JsNumber(1)>>) : chars \in TrimStrings}

TrimInputs == TrimLeaves \cup TrimFlatBodies \cup TrimNestedBodies \cup TrimArrays

\* POST / of the Transformation Pipe section: the pipe is given the body
CallTrimPipe ==
    /\ fnName = "TrimPipe"
    /\ fnOut.kind = "none"
    /\ LET out == TrimPipe(fnIn) IN fnOut' = Out(out.kind, out.value, Null)
    /\ UNCHANGED <<fnName, fnIn>>
    /\ UNCHANGED notFnVars

\* the pipe is given what it returned: value is the second result, left the
\* first
CallTrimPipeAgain ==
    /\ fnName = "TrimPipe"
    /\ fnOut.kind = "return"
    /\ fnOut' = Out("again", TrimPipe(fnOut.value).value, fnOut.value)
    /\ UNCHANGED <<fnName, fnIn>>
    /\ UNCHANGED notFnVars

\* what extractToken(context) finds in the request: nothing, an empty token,
\* or a token
ExtractedTokens == {Undefined, "", "abc.def.ghi", "xyz"}

\* what verifyToken does with a token: it resolves with a payload or rejects
VerifyOutcomes ==
    {[ok |-> TRUE, payload |-> "user:1"], [ok |-> TRUE, payload |-> "admin:2"],
     [ok |-> FALSE, payload |-> Undefined]}

\* context.user before the guard runs
PriorUsers == {Undefined, "user:9"}

\* !token
Falsy(token) == token \in {Undefined, ""}

\* a guard that answers a missing token with false
canActivate_returnsFalse(context, verify) ==
    IF Falsy(context.token)
    THEN Out("return", "false", context)
    ELSE IF verify.ok
    THEN Out("return", "true", [context EXCEPT !.user = verify.payload])
    ELSE Out("throw", UnauthorizedException(Str("Invalid or expired token")), context)

\* AuthGuard.canActivate(context); verify is what verifyToken does with the token
canActivate(context, verify) ==
    IF Falsy(context.token)
    THEN Out("throw", UnauthorizedException(Str("Authentication token required")),
             context)
    ELSE IF verify.ok
    THEN Out("return", "true", [context EXCEPT !.user = verify.payload])
    ELSE Out("throw", UnauthorizedException(Str("Invalid or expired token")), context)

CanActivateInputs ==
    [context : [token : ExtractedTokens, user : PriorUsers], verify : VerifyOutcomes]

\* the framework asks the guard whether the request may pass
CallCanActivate ==
    /\ fnName = "canActivate"
    /\ fnOut.kind = "none"
    /\ fnOut' = canActivate(fnIn.context, fnIn.verify)
    /\ UNCHANGED <<fnName, fnIn>>
    /\ UNCHANGED notFnVars

\* error.code of what processData rejects with
ErrorCodes == {"ECONNREFUSED", "DUPLICATE_KEY", "ETIMEDOUT", "econnrefused", Undefined}

\* what this.processData(data) does: it resolves with a result or rejects
\* with an error that carries a code
ProcessOutcomes ==
    {[failed |-> FALSE, code |-> Undefined, result |-> r] : r \in {"r1", "r2"}}
        \cup {[failed |-> TRUE, code |-> c, result |-> Undefined] : c \in ErrorCodes}

\* a handler without the branch for DUPLICATE_KEY
process_noDuplicateBranch(outcome) ==
    IF ~outcome.failed
    THEN Out("return", [success |-> TRUE, result |-> outcome.result], Null)
    ELSE IF outcome.code = "ECONNREFUSED"
    THEN Out("throw", New(ThrowNew("ServiceUnavailableException", Str("Database"), 0)),
             Null)
    ELSE Out("throw", InternalServerErrorException(Str("Processing failed")), Null)

\* process(data) of the Try-Catch Pattern section
process(outcome) ==
    IF ~outcome.failed
    THEN Out("return", [success |-> TRUE, result |-> outcome.result], Null)
    ELSE IF outcome.code = "ECONNREFUSED"
    THEN Out("throw", New(ThrowNew("ServiceUnavailableException", Str("Database"), 0)),
             Null)
    ELSE IF outcome.code = "DUPLICATE_KEY"
    THEN Out("throw", BadRequestException(Str("Record already exists")), Null)
    ELSE Out("throw", InternalServerErrorException(Str("Processing failed")), Null)

\* POST /process
CallProcess ==
    /\ fnName = "process"
    /\ fnOut.kind = "none"
    /\ fnOut' = process(fnIn)
    /\ UNCHANGED <<fnName, fnIn>>
    /\ UNCHANGED notFnVars

\* new FileUploadValidationPipe(["image/jpeg", "image/png"], 5 * 1024 * 1024)
AllowedTypes == {"image/jpeg", "image/png"}
MaxFileSize == 5 * 1024 * 1024

\* the values the pipe is given: nothing (value.present is false), or an
\* object whose type and size properties may be missing
FileTypes == {"image/jpeg", "image/png", "application/pdf", Undefined}
FileSizes == {0, 1024, MaxFileSize, MaxFileSize + 1}
Files ==
    [present : {TRUE}, type : FileTypes, hasSize : {TRUE}, size : FileSizes]
        \cup [present : {TRUE}, type : FileTypes, hasSize : {FALSE}, size : {0}]
        \cup [present : {FALSE}, type : {Undefined}, hasSize : {FALSE}, size : {0}]

\* !value || !value.type || !value.size
InvalidFile(value) ==
    \/ ~value.present
    \/ value.type \in {Undefined, ""}
    \/ ~value.hasSize
    \/ value.size = 0

\* FileUploadValidationPipe.transform(value, metadata)
FileUploadValidationPipe(allowedTypes, maxSize, value) ==
    IF InvalidFile(value)
    THEN Out("throw", BadRequestException(Str("Invalid file")), Null)
    ELSE IF value.type \notin allowedTypes
    THEN Out("throw",
             BadRequestException(Str("File type must be one of: image/jpeg, image/png")),
             Null)
    ELSE IF value.size > maxSize
    THEN Out("throw",
             BadRequestException(Str("File size must not exceed "
                                         \o ToString(maxSize \div (1024 * 1024)) \o "MB")),
             Null)
    ELSE Out("return", value, Null)

\* POST /upload: the pipe is given the body
CallFileUploadValidationPipe ==
    /\ fnName = "FileUploadValidationPipe"
    /\ fnOut.kind = "none"
    /\ fnOut' = FileUploadValidationPipe(AllowedTypes, MaxFileSize, fnIn)
    /\ UNCHANGED <<fnName, fnIn>>
    /\ UNCHANGED notFnVars

\* the users that usersService holds when AuthService is called; the third
\* was stored without a password
AuthUsers ==
    << [id |-> 1, name |-> "Alice", email |-> "alice@example.com",
        password |-> "secret"],
       [id |-> 2, name |-> "Bob", email |-> "bob@example.com",
        password |-> "hunter2"],
       [id |-> 3, name |-> "Carol", email |-> "carol@example.com"] >>

AuthTables == {AuthUsers, SubSeq(AuthUsers, 2, 3), <<>>}
AuthEmails == {"alice@example.com", "bob@example.com", "carol@example.com",
               "nobody@example.com"}
AuthPasswords == {"secret", "hunter2", "", "guess"}

\* usersService.findByEmail(email): the first stored user with the email, or
\* undefined
findByEmail(table, email) ==
    LET at == StoredWith(table, "email", email)
    IN  IF at = {}
        THEN [found |-> FALSE, index |-> 0]
        ELSE [found |-> TRUE, index |-> CHOOSE k \in at : \A j \in at : k <= j]

\* user.password === password; a user without the property has the password
\* undefined, which no string equals
PasswordMatches(user, password) ==
    "password" \in DOMAIN user /\ user.password = password

\* const { password, ...result } = user
WithoutPassword(user) ==
    [f \in DOMAIN user \ {"password"} |-> user[f]]

\* a validateUser that returns the stored user as it is
validateUser_keepsPassword(table, email, password) ==
    LET user == findByEmail(table, email)
    IN  IF user.found /\ PasswordMatches(table[user.index], password)
        THEN JsObject(table[user.index])
        ELSE JsNull

\* AuthService.validateUser(email, password)
validateUser(table, email, password) ==
    LET user == findByEmail(table, email)
    IN  IF user.found /\ PasswordMatches(table[user.index], password)
        THEN JsObject(WithoutPassword(table[user.index]))
        ELSE JsNull

\* the message of the Error that login throws (the Spanish sample writes
\* the second a of "invalidas" with an acute accent)
InvalidCredentials(page) ==
    IF page = "en" THEN "Invalid credentials" ELSE "Credenciales invalidas"

\* the token that login returns

AccessToken(page) ==
    IF page = "en" THEN "jwt-token-here" ELSE "jwt-token-aqui"

\* AuthService.login(email, password); left is what validateUser returned
login(page, table, email, password) ==
    LET user == validateUser(table, email, password)
    IN  IF user.t = "null"
        THEN Out("throw", [name |-> "Error", message |-> InvalidCredentials(page)],
                 user)
        ELSE Out("return", [access_token |-> AccessToken(page), user |-> user.v],
                 user)

LoginInputs ==
    [page : DiPages, table : AuthTables, email : AuthEmails,
     password : AuthPasswords]

CallLogin ==
    /\ fnName = "login"
    /\ fnOut.kind = "none"
    /\ fnOut' = login(fnIn.page, fnIn.table, fnIn.email, fnIn.password)
    /\ UNCHANGED <<fnName, fnIn>>
    /\ UNCHANGED notFnVars

\* @Param("id") of DELETE /:id, as characters, and req.user as a guard set it
PathIds == {<<"1">>, <<"2">>, <<"1", "a">>, <<"a">>, <<" ", "2">>}
ReqUsers == [id : {1, 2}, role : {"user", "admin", "Admin"}]

CannotDelete(page) ==
    IF page = "en" THEN "Cannot delete other users"
    ELSE "No puedes eliminar otros usuarios"

\* req.user.id !== parseInt(id)
NotParsedId(userId, id) ==
    LET parsed == ParseInt(id)
    IN  parsed.t = "NaN" \/ parsed.v # userId

\* delete(id, req) of the Forbidden Action section; a return is the call of
\* this.service.delete(id) with the id as it came
deleteHandler(page, id, req) ==
    IF NotParsedId(req.user.id, id) /\ req.user.role # "admin"
    THEN Out("throw", ForbiddenException(Str(CannotDelete(page))), Null)
    ELSE Out("return", [call |-> "service.delete", id |-> id], Null)

DeleteInputs == [page : DiPages, id : PathIds, req : [user : ReqUsers]]

\* DELETE /:id
CallDeleteHandler ==
    /\ fnName = "delete"
    /\ fnOut.kind = "none"
    /\ fnOut' = deleteHandler(fnIn.page, fnIn.id, fnIn.req)
    /\ UNCHANGED <<fnName, fnIn>>
    /\ UNCHANGED notFnVars

FnInit ==
    /\ \/ fnName = "findAll" /\ fnIn \in FindAllInputs
       \/ fnName = "login" /\ fnIn \in LoginInputs
       \/ fnName = "delete" /\ fnIn \in DeleteInputs
       \/ fnName = "process" /\ fnIn \in ProcessOutcomes
       \/ fnName = "FileUploadValidationPipe" /\ fnIn \in Files
       \/ fnName = "TrimPipe" /\ fnIn \in TrimInputs
       \/ fnName = "canActivate" /\ fnIn \in CanActivateInputs
    /\ fnOut = NotCalled

FnNext ==
    \/ CallFindAllHandler
    \/ CallTrimPipe
    \/ CallCanActivate
    \/ CallTrimPipeAgain
    \/ CallProcess
    \/ CallLogin
    \/ CallDeleteHandler
    \/ CallFileUploadValidationPipe

InitFn == FnInit /\ SiteIdle /\ UsersIdle /\ ReqIdle /\ DiIdle /\ SvcIdle

SpecFn == InitFn /\ [][FnNext]_vars

(***************************************************************************)
(* Properties of the code samples.                                         *)
(***************************************************************************)
\* the failed outcomes of usersService.findAll()
Failures == {o \in FindAllOutcomes : o.failed}

\* the response to what the handler throws in production for a failure
ProductionResponse(failure) ==
    FormatResponse(findAllHandler("production", failure).value)

\* C13: when NODE_ENV is "production" and findAll fails, the response to the
\* exception of the handler is the generic message alone: it is the same for
\* any two underlying errors and it has no error and no stack field.
C13_ProductionGeneric ==
    /\ \A a, b \in Failures : ProductionResponse(a) = ProductionResponse(b)
    /\ fnName = "findAll" /\ fnOut.kind = "throw" /\ fnIn.nodeEnv = "production" =>
        /\ fnOut.value.name = "InternalServerErrorException"
        /\ FormatResponse(fnOut.value) =
               [statusCode |-> 500, message |-> "Failed to fetch users"]
        /\ DOMAIN FormatResponse(fnOut.value) \cap {"error", "stack"} = {}

\* C13 witness: in production findAll failed with a connection error and the
\* handler has thrown.
C13_Witness ==
    /\ fnName = "findAll"
    /\ fnIn.nodeEnv = "production"
    /\ fnIn.outcome.failed
    /\ fnIn.outcome.message = "connect ECONNREFUSED 10.0.0.5:5432"
    /\ fnOut.kind = "throw"

\* every string in the value, at any depth, is free of leading and trailing
\* whitespace
RECURSIVE AllTrimmed(_)
AllTrimmed(value) ==
    CASE value.t = "string" -> Trim(value.v) = value.v
      [] value.t \in {"object", "array"} ->
             \A key \in DOMAIN value.v : AllTrimmed(value.v[key])
      [] OTHER -> TRUE

\* the value that is not a string came back as it was: the same value, or for
\* an object or array the same kind with the same keys and, under each key
\* that did not hold a string, the same value
NonStringsKept(given, got) ==
    CASE given.t = "string" -> TRUE
      [] given.t \in {"object", "array"} ->
             /\ got.t = given.t
             /\ DOMAIN got.v = DOMAIN given.v
             /\ \A key \in DOMAIN given.v :
                    given.v[key].t # "string" => got.v[key] = given.v[key]
      [] OTHER -> got = given

\* C14: after TrimPipe.transform no string contained in the result has
\* leading or trailing whitespace, and every value that is not a string is
\* returned as it was.
C14_AllStringsTrimmed ==
    fnName = "TrimPipe" /\ fnOut.kind = "return" =>
        /\ AllTrimmed(fnOut.value)
        /\ NonStringsKept(fnIn, fnOut.value)

\* the token the guard extracted is missing
TokenMissing == Falsy(fnIn.context.token)

\* C17: AuthGuard.canActivate either returns true, after verifyToken
\* succeeded and with context.user set to the verified payload, or throws
\* UnauthorizedException, for a missing token or a token that fails
\* verification, and then leaves context.user as it was; it never returns false.
C17_GuardTwoOutcomes ==
    fnName = "canActivate" /\ fnOut.kind # "none" =>
        \/ /\ fnOut.kind = "return"
           /\ fnOut.value = "true"
           /\ ~TokenMissing /\ fnIn.verify.ok
           /\ fnOut.left.user = fnIn.verify.payload
        \/ /\ fnOut.kind = "throw"
           /\ fnOut.value.name = "UnauthorizedException"
           /\ fnOut.value.status = 401
           /\ TokenMissing \/ ~fnIn.verify.ok
           /\ fnOut.left = fnIn.context

\* C17 witness: the guard returned and the user that was on the context
\* before has been replaced by the verified payload.
C17_Witness ==
    /\ fnName = "canActivate"
    /\ fnOut.kind = "return"
    /\ fnIn.context.user = "user:9"
    /\ fnOut.left.user = "admin:2"

(***************************************************************************)
(* UsersService of the services page (Basic Service) and the               *)
(* RegistrationService that composes it with EmailService and              *)
(* LoggerService.  register is async: each await is a step of its own, and *)
(* other calls of UsersService may run between two steps.                  *)
(***************************************************************************)
SvcUser(id, name, email) == [id |-> id, name |-> name, email |-> email]

\* the userData the controller and the test pass to create
UserDatas ==
    {[name |-> "Charlie", email |-> "charlie@example.com"],
     [name |-> "Dana", email |-> "dana@example.com"]}

\* the userData passed to register
RegistrationDatas ==
    {[name |-> "Erin", email |-> "erin@example.com", password |-> "s3cret"]}

SvcIds == 1 .. MaxUsers

\* { id: this.users.length + 1, ...userData }: a property of userData wins
\* over the one written before the spread
NewUser(list, userData) == userData @@ [id |-> Len(list) + 1]

SvcInit ==
    /\ svcUsers = << SvcUser(1, "Alice", "alice@example.com"),
                     SvcUser(2, "Bob", "bob@example.com") >>
    /\ svcCall = [op |-> "new", arg |-> Null]
    /\ svcResult = [kind |-> "none", value |-> Null]
    /\ svcBefore = <<>>
    /\ regPc = "idle"
    /\ regData = Null
    /\ regUser = Null
    /\ regError = Null
    /\ regTrace = <<>>
    /\ regResult = [kind |-> "none", value |-> Null]

regVars == <<regPc, regData, regUser, regError, regTrace, regResult>>

\* UsersService.findAll()
SvcFindAll ==
    /\ regPc # "off"
    /\ svcCall' = [op |-> "findAll", arg |-> Null]
    /\ svcBefore' = svcUsers
    /\ svcResult' = Returned(svcUsers)
    /\ UNCHANGED <<svcUsers, regVars>>
    /\ UNCHANGED notSvcVars

\* UsersService.findOne(id)
SvcFindOne(id) ==
    /\ regPc # "off"
    /\ svcCall' = [op |-> "findOne", arg |-> id]
    /\ svcBefore' = svcUsers
    /\ LET index == FindIndex(svcUsers, "id", id)
       IN  svcResult' = IF index = -1 THEN [kind |-> "undefined", value |-> Null]
                        ELSE Returned(svcUsers[index + 1])
    /\ UNCHANGED <<svcUsers, regVars>>
    /\ UNCHANGED notSvcVars

\* a create that puts the new user in the place of the last one
UsersService_create_overLast(userData) ==
    /\ Len(svcUsers) < MaxUsers
    /\ svcCall' = [op |-> "create", arg |-> userData]
    /\ svcBefore' = svcUsers
    /\ svcUsers' = SubSeq(svcUsers, 1, Len(svcUsers) - 1)
                       \o <<NewUser(svcUsers, userData)>>
    /\ svcResult' = Returned(NewUser(svcUsers, userData))

\* the body of UsersService.create(userData)
UsersService_create(userData) ==
    /\ Len(svcUsers) < MaxUsers
    /\ svcCall' = [op |-> "create", arg |-> userData]
    /\ svcBefore' = svcUsers
    /\ svcUsers' = Append(svcUsers, NewUser(svcUsers, userData))
    /\ svcResult' = Returned(NewUser(svcUsers, userData))

\* UsersService.create(userData), called by the controller or a test
SvcCreate(userData) ==
    /\ regPc # "off"
    /\ UsersService_create(userData)
    /\ UNCHANGED regVars
    /\ UNCHANGED notSvcVars

\* UsersService.remove(id)
SvcRemove(id) ==
    /\ regPc # "off"
    /\ svcCall' = [op |-> "remove", arg |-> id]
    /\ svcBefore' = svcUsers
    /\ LET index == FindIndex(svcUsers, "id", id)
       IN  IF index # -1
           THEN /\ svcResult' = Returned(svcUsers[index + 1])
                /\ svcUsers' = Splice1(svcUsers, index)
           ELSE /\ svcResult' = [kind |-> "null", value |-> Null]
                /\ UNCHANGED svcUsers
    /\ UNCHANGED regVars
    /\ UNCHANGED notSvcVars

\* what register does, as entries of regTrace
Did(ev, text) == [ev |-> ev, text |-> text]

\* the errors usersService.create and emailService.sendWelcomeEmail may reject
\* with
CreateErrors == {"Database not connected"}
EmailErrors == {"SMTP connection refused"}

\* EmailService.sendWelcomeEmail(email, name) up to the point where sending
\* starts, and from there to its return
SendingEmail(email) ==
    << Did("emailService.sendWelcomeEmail", email),
       Did("logger.log", "Sending email to " \o email \o ": Welcome!") >>
EmailSent(email) ==
    << Did("logger.log", "Email sent successfully to " \o email) >>

\* register(userData) is called: the first log line, up to the first await
Register(userData) ==
    /\ regPc \in {"idle", "done"}
    /\ regPc' = "create"
    /\ regData' = userData
    /\ regUser' = Null
    /\ regError' = Null
    /\ regTrace' = << Did("logger.log", "Registering user: " \o userData.email) >>
    /\ regResult' = [kind |-> "none", value |-> Null]
    /\ UNCHANGED <<svcUsers, svcCall, svcResult, svcBefore>>
    /\ UNCHANGED notSvcVars

\* a register that takes the created user straight to the success log
AwaitCreate_skipsEmail ==
    /\ regPc = "create"
    /\ \/ /\ UsersService_create(regData)
          /\ regUser' = NewUser(svcUsers, regData)
          /\ regTrace' = Append(regTrace,
                                Did("usersService.create", regData.email))
          /\ regPc' = "success"
          /\ UNCHANGED regError
       \/ /\ \E e \in CreateErrors : regError' = e
          /\ regPc' = "catch"
          /\ UNCHANGED <<svcUsers, svcCall, svcResult, svcBefore, regUser, regTrace>>
    /\ UNCHANGED <<regData, regResult>>
    /\ UNCHANGED notSvcVars

\* const user = await this.usersService.create(userData): it resolves with the
\* new user or rejects
AwaitCreate ==
    /\ regPc = "create"
    /\ \/ /\ UsersService_create(regData)
          /\ regUser' = NewUser(svcUsers, regData)
          /\ regTrace' = Append(regTrace,
                                Did("usersService.create", regData.email))
          /\ regPc' = "email"
          /\ UNCHANGED regError
       \/ /\ \E e \in CreateErrors : regError' = e
          /\ regPc' = "catch"
          /\ UNCHANGED <<svcUsers, svcCall, svcResult, svcBefore, regUser, regTrace>>
    /\ UNCHANGED <<regData, regResult>>
    /\ UNCHANGED notSvcVars

\* await this.emailService.sendWelcomeEmail(user.email, user.name): it resolves
\* or rejects
AwaitEmail ==
    /\ regPc = "email"
    /\ \/ /\ regTrace' = regTrace \o SendingEmail(regUser.email)
                             \o EmailSent(regUser.email)
          /\ regPc' = "success"
          /\ UNCHANGED regError
       \/ /\ regTrace' = regTrace \o SendingEmail(regUser.email)
          /\ \E e \in EmailErrors : regError' = e
          /\ regPc' = "catch"
    /\ UNCHANGED <<svcUsers, svcCall, svcResult, svcBefore, regData, regUser, regResult>>
    /\ UNCHANGED notSvcVars

\* this.logger.log(`User registered successfully: ...`); return { success: true, user }
ReturnSuccess ==
    /\ regPc = "success"
    /\ regTrace' = Append(regTrace,
                          Did("logger.log", "User registered successfully: "
                                                \o ToString(regUser.id)))
    /\ regResult' = Returned([success |-> TRUE, user |-> regUser])
    /\ regPc' = "done"
    /\ UNCHANGED <<svcUsers, svcCall, svcResult, svcBefore, regData, regUser, regError>>
    /\ UNCHANGED notSvcVars

\* a catch block that logs the error and returns instead of throwing it again
Catch_swallows ==
    /\ regPc = "catch"
    /\ regTrace' = Append(regTrace,
                          Did("logger.error", "Registration failed: " \o regError))
    /\ regResult' = Returned([success |-> TRUE, user |-> Null])
    /\ regPc' = "done"
    /\ UNCHANGED <<svcUsers, svcCall, svcResult, svcBefore, regData, regUser, regError>>
    /\ UNCHANGED notSvcVars

\* catch (error): this.logger.error(`Registration failed: ...`); throw error
Catch ==
    /\ regPc = "catch"
    /\ regTrace' = Append(regTrace,
                          Did("logger.error", "Registration failed: " \o regError))
    /\ regResult' = Thrown(regError)
    /\ regPc' = "done"
    /\ UNCHANGED <<svcUsers, svcCall, svcResult, svcBefore, regData, regUser, regError>>
    /\ UNCHANGED notSvcVars

SvcNext ==
    \/ SvcFindAll
    \/ \E id \in SvcIds : SvcFindOne(id)
    \/ \E userData \in UserDatas : SvcCreate(userData)
    \/ \E id \in SvcIds : SvcRemove(id)
    \/ \E userData \in RegistrationDatas : Register(userData)
    \/ AwaitCreate
    \/ AwaitEmail
    \/ ReturnSuccess
    \/ Catch

InitSvc == SvcInit /\ SiteIdle /\ UsersIdle /\ ReqIdle /\ DiIdle /\ FnIdle

SpecSvc == InitSvc /\ [][SvcNext]_vars

(***************************************************************************)
(* Properties of the services page's UsersService and RegistrationService. *)
(***************************************************************************)
\* C15: create(userData) appends exactly one user, returns it with an id
\* property and the given name and email, and leaves the users stored before
\* unchanged: the list, which is what findAll returns, is the old list
\* followed by the new user.
C15_CreateAppendsOne ==
    /\ svcCall.op = "create" =>
        /\ svcResult.kind = "return"
        /\ "id" \in DOMAIN svcResult.value
        /\ svcResult.value.name = svcCall.arg.name
        /\ svcResult.value.email = svcCall.arg.email
        /\ Len(svcUsers) = Len(svcBefore) + 1
        /\ SubSeq(svcUsers, 1, Len(svcBefore)) = svcBefore
        /\ svcUsers[Len(svcUsers)] = svcResult.value
    /\ svcCall.op = "findAll" => svcResult.value = svcUsers

\* C15 witness: the test's create({ name: "Charlie", ... }) on a new service.
C15_Witness ==
    /\ svcCall.op = "create"
    /\ svcCall.arg.name = "Charlie"
    /\ Len(svcBefore) = 2
    /\ svcUsers[3] = SvcUser(3, "Charlie", "charlie@example.com")

\* the positions of regTrace at which register did ev
Positions(ev) == {k \in DOMAIN regTrace : regTrace[k].ev = ev}

\* the positions at which EmailService logged that the email was sent
EmailSentAt ==
    {k \in Positions("logger.log") :
        \E d \in RegistrationDatas :
            regTrace[k].text = "Email sent successfully to " \o d.email}

\* the positions at which register logged its success
SuccessLoggedAt ==
    {k \in Positions("logger.log") :
        \E id \in SvcIds :
            regTrace[k].text = "User registered successfully: " \o ToString(id)}

\* C18: register works in order: the user is created before the welcome email
\* is sent, and the success log and the { success: true, user } result come
\* only after the creation and the email have both completed without error.
C18_RegisterInOrder ==
    /\ \A j \in Positions("emailService.sendWelcomeEmail") :
          \E i \in Positions("usersService.create") : i < j
    /\ \A k \in SuccessLoggedAt :
          /\ \E i \in Positions("usersService.create") : i < k
          /\ \E j \in EmailSentAt : j < k
          /\ regError = Null
    /\ regResult.kind = "return" =>
          /\ SuccessLoggedAt # {}
          /\ regError = Null
          /\ regResult.value.success
          /\ regResult.value.user = regUser

\* C18 witness: register returned for Erin, who is now the third user.
C18_Witness ==
    /\ regPc = "done"
    /\ regResult.kind = "return"
    /\ regResult.value.user.email = "erin@example.com"
    /\ Len(regTrace) = 6

\* C19: when the creation or the welcome email fails, register logs the error
\* once through logger.error and throws the same error; it never returns a
\* success result after a failed step.
C19_FailureLoggedAndRethrown ==
    /\ regPc = "done" /\ regError # Null =>
          /\ regResult.kind = "throw"
          /\ regResult.value = regError
          /\ Cardinality(Positions("logger.error")) = 1
          /\ \A k \in Positions("logger.error") :
                /\ regTrace[k].text = "Registration failed: " \o regError
                /\ k = Len(regTrace)
    /\ regError # Null => regResult.kind # "return"
    /\ regResult.kind = "return" => Positions("logger.error") = {}

\* C19 witness: the user was created, the welcome email failed, and register
\* has thrown.
C19_Witness ==
    /\ regPc = "done"
    /\ regError = "SMTP connection refused"
    /\ regResult.kind = "throw"
    /\ Positions("usersService.create") # {}

\* C21: process returns { success: true, result } when processData succeeds;
\* when it fails, process throws one exception chosen by the error's code:
\* ServiceUnavailableException (503) for ECONNREFUSED, BadRequestException for
\* DUPLICATE_KEY, InternalServerErrorException for every other error.
C21_ProcessMapsErrorCodes ==
    fnName = "process" /\ fnOut.kind # "none" =>
        IF ~fnIn.failed
        THEN /\ fnOut.kind = "return"
             /\ fnOut.value = [success |-> TRUE, result |-> fnIn.result]
        ELSE /\ fnOut.kind = "throw"
             /\ fnOut.value.name =
                    CASE fnIn.code = "ECONNREFUSED" -> "ServiceUnavailableException"
                      [] fnIn.code = "DUPLICATE_KEY" -> "BadRequestException"
                      [] OTHER -> "InternalServerErrorException"
             /\ fnOut.value.status =
                    CASE fnIn.code = "ECONNREFUSED" -> 503
                      [] fnIn.code = "DUPLICATE_KEY" -> 400
                      [] OTHER -> 500

\* C21 witness: processData failed with DUPLICATE_KEY and process has thrown
\* BadRequestException.
C21_Witness ==
    /\ fnName = "process"
    /\ fnIn.failed /\ fnIn.code = "DUPLICATE_KEY"
    /\ fnOut.kind = "throw"
    /\ fnOut.value.name = "BadRequestException"

\* the value has a type contained in allowedTypes and a size that does not
\* exceed maxSize
AcceptableFile(value) ==
    /\ value.present
    /\ value.type \in AllowedTypes
    /\ value.hasSize
    /\ value.size <= MaxFileSize

\* C22: FileUploadValidationPipe.transform returns the value unchanged exactly
\* when its type is one of allowedTypes and its size does not exceed maxSize,
\* and throws BadRequestException in every other case.
C22_FileAcceptedExactlyWhenValid ==
    fnName = "FileUploadValidationPipe" /\ fnOut.kind # "none" =>
        IF AcceptableFile(fnIn)
        THEN fnOut.kind = "return" /\ fnOut.value = fnIn
        ELSE /\ fnOut.kind = "throw"
             /\ fnOut.value.name = "BadRequestException"
             /\ fnOut.value.status = 400

\* a user with the given email exists and its password equals the given one
Credible(table, email, password) ==
    \E k \in DOMAIN table :
        /\ table[k].email = email
        /\ PasswordMatches(table[k], password)

\* what validateUser gives: a stored user's record without the password
\* when the credentials are right, null otherwise; login throws exactly when
\* it is null
ValidatedOrNull ==
    /\ IF Credible(fnIn.table, fnIn.email, fnIn.password)
       THEN /\ fnOut.left.t = "object"
            /\ "password" \notin DOMAIN fnOut.left.v
            /\ \E k \in DOMAIN fnIn.table :
                   /\ fnIn.table[k].email = fnIn.email
                   /\ fnOut.left.v = WithoutPassword(fnIn.table[k])
       ELSE fnOut.left.t = "null"
    /\ fnOut.kind = "throw" <=> fnOut.left.t = "null"
    /\ fnOut.kind = "return" => fnOut.value.user = fnOut.left.v

\* C23 as stated: validateUser returns the user without its password for the
\* right email and password and null otherwise, and login throws
\* "Invalid credentials" exactly when validateUser returned null.
C23_LoginThrowsInvalidCredentials ==
    fnName = "login" /\ fnOut.kind # "none" =>
        /\ ValidatedOrNull
        /\ fnOut.kind = "throw" =>
               fnOut.value = [name |-> "Error", message |-> "Invalid credentials"]

\* C23 amended: the same, with the message of the Error being
\* "Invalid credentials" in the English sample and the Spanish sample's own
\* text in the Spanish one.
C23_LoginThrowsPerPage ==
    fnName = "login" /\ fnOut.kind # "none" =>
        /\ ValidatedOrNull
        /\ fnOut.kind = "throw" =>
               fnOut.value =
                   [name |-> "Error", message |-> InvalidCredentials(fnIn.page)]

\* C23 witness: login was called with Alice's email and password and returned
\* her record, which has no password field.
C23_Witness ==
    /\ fnName = "login"
    /\ fnIn.email = "alice@example.com" /\ fnIn.password = "secret"
    /\ fnOut.kind = "return"
    /\ fnOut.value.user = [id |-> 1, name |-> "Alice", email |-> "alice@example.com"]

\* the id in the path is the requesting user's id, written in decimal
OwnId(userId, id) == id = <<ToString(userId)>>

\* C24: the Forbidden Action handler reaches service.delete(id) only when the
\* requesting user's id equals the id in the path or the user's role is
\* "admin", and throws ForbiddenException for every other request.
C24_DeleteOwnOrAdmin ==
    fnName = "delete" /\ fnOut.kind # "none" =>
        IF OwnId(fnIn.req.user.id, fnIn.id) \/ fnIn.req.user.role = "admin"
        THEN fnOut.kind = "return"
        ELSE /\ fnOut.kind = "throw"
             /\ fnOut.value.name = "ForbiddenException"

\* C25: whatever create and delete calls were made on the UsersService of
\* the exception-handling samples, no two stored users have the same id.
C25_UniqueIds ==
    \A i, j \in DOMAIN users : users[i].id = users[j].id => i = j

\* the other Services page
OtherPage(page) == IF page = "en" THEN "es" ELSE "en"

\* C26: the English and the Spanish Services page give @injectable() the same
\* default lifecycle: two classes that inject the same @injectable() service
\* under the page in force share its instance exactly when they would under
\* the other page.
C26_PagesAgreeOnInjectable ==
    diPage \in DiPages =>
        \A c \in ClassesOf(diPage) : \A i, j \in Holders(c) :
            Decorator(diPage, c) = "injectable" /\ i # j =>
                (injected[i][c] = injected[j][c]
                     <=> Lifecycle(OtherPage(diPage), "injectable") = "singleton")

\* the link starts with /es/
StartsWithEs(link) ==
    link.kind = "abs" /\ link.segs # <<>> /\ Head(link.segs) = "es"

\* the links of a locale's nav bar and sidebar
ConfigLinks(locale) ==
    {Nav(locale)[i].link : i \in DOMAIN Nav(locale)}
        \cup UNION {{Sidebar(locale)[g].items[i].link :
                         i \in DOMAIN Sidebar(locale)[g].items} :
                    g \in DOMAIN Sidebar(locale)}

\* C27: every internal nav and sidebar link of the es locale starts with /es/
\* and no internal link of the root locale does; so the internal nav or sidebar
\* link a visitor has followed starts with /es/ exactly when the page it was
\* on is of the es locale.
C27_LocaleLinksPrefixed ==
    /\ \A link \in ConfigLinks("es") : IsInternal(link) => StartsWithEs(link)
    /\ \A link \in ConfigLinks("root") : IsInternal(link) => ~StartsWithEs(link)
    /\ (via.kind \in {"nav", "sidebar"} /\ IsInternal(via.link)) =>
           (StartsWithEs(via.link) <=> LocaleOf(via.from) = "es")

\* C27 witness: a visitor on the es pipes page followed the nav bar's guide
\* entry and is on the es introduction page.
C27_Witness ==
    /\ via.kind = "nav" /\ via.from = <<"docs", "es", "pipes">>
    /\ via.link = Abs(<<"es", "introduction">>)
    /\ router = PageAt(<<"docs", "es", "introduction">>)

\* C28: TrimPipe.transform is idempotent: given its own result, it returns a
\* value equal to that result.
C28_TrimIdempotent ==
    fnName = "TrimPipe" /\ fnOut.kind = "again" =>
        /\ fnOut.left = TrimPipe(fnIn).value
        /\ fnOut.value = fnOut.left

\* C28 witness: the string with two spaces at each end was trimmed to "a", and
\* the second application has returned "a" again.
C28_Witness ==
    /\ fnName = "TrimPipe"
    /\ fnIn = JsString(<<" ", " ", "a", " ", " ">>)
    /\ fnOut.kind = "again"
    /\ fnOut.left = JsString(<<"a">>)
    /\ fnOut.value = JsString(<<"a">>)

====
